---- MODULE Spec2Model ----
(***************************************************************************)
(* A model of the phira-mp multiplayer server: the room state machine of   *)
(* src/src/room.cpp (members, monitors, host, readiness, results, cycle)   *)
(* driven by the command handlers, and the server registry of rooms and    *)
(* users.  One action is one handler run to completion.                    *)
(***************************************************************************)
EXTENDS Integers, Sequences, FiniteSets, TLC

\* ---------------------------------------------------------------- constants

\* room.h: static constexpr int ROOM_MAX_USERS = 8
ROOM_MAX_USERS == 8

\* Bounds of the model: user ids 1..NumUsers may authenticate, and at most
\* NumSlots Room objects are alive at a time.
NumUsers == 3
NumSlots == 2

\* The members that stay in the room of the cap game.
CapStay == 6

\* The session game: the connections accepted and the users behind them.
NumSessions == 2
NumClients == 2
NumProducers == 2
MaxPush == 2
MaxIdLen == 22
NumThreads == 2
NumPlugins == 2

AllUsers == 1 .. (ROOM_MAX_USERS + 2)
Users == 1 .. NumUsers
Slots == 1 .. NumSlots
RoomIds == {"R1", "R2"}
SessionIds == 1 .. NumSessions
Clients == 1 .. NumClients
Activities == {"reader", "writer", "heartbeat"}
ChartIds == {42}
Producers == 1 .. NumProducers
Stoppers == {"reaper", "rebind", "admin"}
Threads == 1 .. NumThreads

VARIABLES
    config,     \* ServerState::config: monitors, the ids allowed to monitor
    users,      \* ServerState::users: id -> User (exists = present in the map)
    rooms,      \* ServerState::rooms: room id -> the registered Room object
    room,       \* the Room objects, by slot
    log,        \* the try_send calls of the last handler, in call order
    chk,        \* the Room as check_all_ready found it in the last handler
    op,         \* the last handler and its arguments
    net,        \* the sessions, the lost-connection queue and the reaper
    sq,         \* one Session seen closely: its SendQueue, alive, its socket
    codec,      \* one call of a codec function: its input and its result
    thr         \* threads seen step by step: their place, their locks, their locals

vars == <<config, users, rooms, room, log, chk, op, net, sq, codec, thr>>

\* ServerConfig: monitors = {2} unless the configuration file names others.
DefaultConfig == [monitors |-> {2}]

\* ------------------------------------------------------------------ helpers

Max(a, b) == IF a >= b THEN a ELSE b

Range(s) == {s[i] : i \in 1 .. Len(s)}

\* The index of the first element of s that is x (0 when there is none).
IndexOf(s, x) ==
    IF \E i \in 1 .. Len(s) : s[i] = x
    THEN CHOOSE i \in 1 .. Len(s) : s[i] = x /\ \A j \in 1 .. (i - 1) : s[j] # x
    ELSE 0

\* ----------------------------------------------------------------- commands

\* A ServerCommand as a record; the fields a command does not carry are blank.
Cmd(type) ==
    [type |-> type, msg |-> "", user |-> 0, flag |-> FALSE, state |-> "",
     chart |-> {}, ok |-> TRUE]

\* ServerCommand::msg(Message): an SMessage carrying a Message.
SMessage(m, u) == [Cmd("SMessage") EXCEPT !.msg = m, !.user = u]
MsgFlag(m, f) == [Cmd("SMessage") EXCEPT !.msg = m, !.flag = f]
ChangeHostCmd(h) == [Cmd("ChangeHost") EXCEPT !.flag = h]
ChangeStateCmd(rs) == [Cmd("ChangeState") EXCEPT !.state = rs.type, !.chart = rs.chart]
OnJoinRoomCmd(u) == [Cmd("OnJoinRoom") EXCEPT !.user = u]
TouchesCmd(u) == [Cmd("Touches") EXCEPT !.user = u]
JudgesCmd(u) == [Cmd("Judges") EXCEPT !.user = u]
SimpleOk(type) == Cmd(type)
SimpleErr(type, slug) == [Cmd(type) EXCEPT !.ok = FALSE, !.msg = slug]

\* One try_send call: the recipient and the command.
Sent(u, cmd) == [to |-> u, cmd |-> cmd]

\* -------------------------------------------------------------------- users

NoUser == [exists |-> FALSE, online |-> FALSE, room |-> {}, monitor |-> FALSE]

\* weak_ptr<User>::lock succeeds while the User object is owned by the
\* users map.
Alive(w) == users[w].exists

\* User::can_monitor: the id is in the configured monitors list.
CanMonitor(u) == u \in config.monitors

\* -------------------------------------------------------------------- rooms

StateSelectChart ==
    [type |-> "SelectChart", started |-> {}, results |-> {}, aborted |-> {}]
StateWaitForReady(s) ==
    [type |-> "WaitForReady", started |-> s, results |-> {}, aborted |-> {}]
StatePlaying ==
    [type |-> "Playing", started |-> {}, results |-> {}, aborted |-> {}]

\* A slot holding no Room object.
NullRoom ==
    [id |-> "", host |-> {}, state |-> StateSelectChart, locked |-> FALSE,
     cycle |-> FALSE, users_ |-> <<>>, monitors_ |-> <<>>, chart |-> {}]

\* Room::Room: the host is the first user.
NewRoom(rid, host_user) ==
    [NullRoom EXCEPT !.id = rid, !.host = {host_user},
                     !.users_ = IF Alive(host_user) THEN <<host_user>> ELSE <<>>]

\* Room::users, Room::monitors: the references that still lock.
RoomUsers(rm) == SelectSeq(rm.users_, Alive)
RoomMonitors(rm) == SelectSeq(rm.monitors_, Alive)

\* InternalRoomState::to_client and Room::client_room_state: only the
\* SelectChart state carries the chart id.
ClientRoomState(rm) ==
    [type |-> rm.state.type,
     chart |-> IF rm.state.type = "SelectChart" THEN rm.chart ELSE {}]

\* check_host that lets every user pass.
CheckHostAnyone(rm, u) == TRUE

\* Room::check_host.
CheckHost(rm, u) == \E h \in rm.host : Alive(h) /\ h = u

\* Room::broadcast: members first, then monitors.
Broadcast(rm, lg, cmd) ==
    LET u == RoomUsers(rm)
        m == RoomMonitors(rm)
    IN lg \o [i \in 1 .. Len(u) |-> Sent(u[i], cmd)]
          \o [i \in 1 .. Len(m) |-> Sent(m[i], cmd)]

\* broadcast_monitors sending to the members as well.
BroadcastMonitorsToAll(rm, lg, cmd) == Broadcast(rm, lg, cmd)

\* Room::broadcast_monitors.
BroadcastMonitors(rm, lg, cmd) ==
    LET m == RoomMonitors(rm)
    IN lg \o [i \in 1 .. Len(m) |-> Sent(m[i], cmd)]

\* Room::send.
Send(rm, lg, m, u) == Broadcast(rm, lg, SMessage(m, u))

\* Room::on_state_change.
OnStateChange(rm, lg) == Broadcast(rm, lg, ChangeStateCmd(ClientRoomState(rm)))

\* add_user refusing a member only above the cap.
AddUserOffByOne(rm, u, is_monitor) ==
    IF is_monitor
    THEN [ok |-> TRUE,
          rm |-> [rm EXCEPT !.monitors_ = Append(SelectSeq(@, Alive), u)]]
    ELSE LET live == SelectSeq(rm.users_, Alive)
         IN IF Len(live) > ROOM_MAX_USERS
            THEN [ok |-> FALSE, rm |-> [rm EXCEPT !.users_ = live]]
            ELSE [ok |-> TRUE, rm |-> [rm EXCEPT !.users_ = Append(live, u)]]

\* add_user counting the monitors toward the cap, for both kinds of join.
AddUserCountsMonitors(rm, u, is_monitor) ==
    LET live == SelectSeq(rm.users_, Alive)
        mons == SelectSeq(rm.monitors_, Alive)
        full == Len(live) + Len(mons) >= ROOM_MAX_USERS
    IN IF is_monitor
       THEN IF full
            THEN [ok |-> FALSE, rm |-> [rm EXCEPT !.monitors_ = mons]]
            ELSE [ok |-> TRUE, rm |-> [rm EXCEPT !.monitors_ = Append(mons, u)]]
       ELSE IF full
            THEN [ok |-> FALSE, rm |-> [rm EXCEPT !.users_ = live]]
            ELSE [ok |-> TRUE, rm |-> [rm EXCEPT !.users_ = Append(live, u)]]

\* Room::add_user: expired references are erased, then the cap is checked
\* for a member; a monitor is always added.
AddUser(rm, u, is_monitor) ==
    IF is_monitor
    THEN [ok |-> TRUE,
          rm |-> [rm EXCEPT !.monitors_ = Append(SelectSeq(@, Alive), u)]]
    ELSE LET live == SelectSeq(rm.users_, Alive)
         IN IF Len(live) >= ROOM_MAX_USERS
            THEN [ok |-> FALSE, rm |-> [rm EXCEPT !.users_ = live]]
            ELSE [ok |-> TRUE, rm |-> [rm EXCEPT !.users_ = Append(live, u)]]

\* AllReady with the monitors forgotten.
AllReadyMembersOnly(rm) ==
    LET u == RoomUsers(rm)
    IN \A i \in 1 .. Len(u) : u[i] \in rm.state.started

\* check_all_ready in WaitForReady: every member and every monitor is in
\* started.
AllReady(rm) ==
    LET u == RoomUsers(rm)
        m == RoomMonitors(rm)
    IN /\ \A i \in 1 .. Len(u) : u[i] \in rm.state.started
       /\ \A i \in 1 .. Len(m) : m[i] \in rm.state.started

\* AllDone with the aborts forgotten.
AllDoneResultsOnly(rm) ==
    LET u == RoomUsers(rm)
    IN \A i \in 1 .. Len(u) : u[i] \in rm.state.results

\* check_all_ready in Playing: every member has a result or an abort.
AllDone(rm) ==
    LET u == RoomUsers(rm)
    IN \A i \in 1 .. Len(u) :
           u[i] \in rm.state.results \/ u[i] \in rm.state.aborted

\* check_all_ready, the game start: StartPlaying, the state, ChangeState.
StartGame(rm, lg) ==
    LET lg1 == Send(rm, lg, "StartPlaying", 0)
        rm1 == [rm EXCEPT !.state = StatePlaying]
    IN [rm |-> rm1, log |-> OnStateChange(rm1, lg1)]

\* NextHostIndex without the wrap: the last member keeps the host role.
NextHostIndexNoWrap(usr_list, old_host) ==
    LET i == IF old_host = {} THEN 0
             ELSE IndexOf(usr_list, CHOOSE h \in old_host : TRUE)
    IN IF i = 0 THEN 1 ELSE IF i = Len(usr_list) THEN i ELSE i + 1

\* The cycle step of check_all_ready: the member after the old host, the
\* first member when there is no old host or it is not a member.
NextHostIndex(usr_list, old_host) ==
    LET i == IF old_host = {} THEN 0
             ELSE IndexOf(usr_list, CHOOSE h \in old_host : TRUE)
    IN IF i = 0 THEN 1 ELSE (i % Len(usr_list)) + 1

\* CycleHost telling the new host first: ChangeHost(true), then
\* ChangeHost(false) to the old host.
CycleHostTrueFirst(rm, lg) ==
    LET old_host == {h \in rm.host : Alive(h)}
        usr_list == RoomUsers(rm)
    IN IF usr_list = <<>>
       THEN [rm |-> rm, log |-> lg]
       ELSE LET new_host == usr_list[NextHostIndex(usr_list, old_host)]
                rm1 == [rm EXCEPT !.host = {new_host}]
                lg1 == Append(Send(rm1, lg, "NewHost", new_host),
                              Sent(new_host, ChangeHostCmd(TRUE)))
            IN [rm |-> rm1,
                log |-> lg1 \o [i \in 1 .. Cardinality(old_host) |->
                                   Sent(CHOOSE h \in old_host : TRUE,
                                        ChangeHostCmd(FALSE))]]

\* check_all_ready, the host cycle of a game end: NewHost, ChangeHost(false)
\* to the old host, ChangeHost(true) to the new one.
CycleHost(rm, lg) ==
    LET old_host == {h \in rm.host : Alive(h)}
        usr_list == RoomUsers(rm)
    IN IF usr_list = <<>>
       THEN [rm |-> rm, log |-> lg]
       ELSE LET new_host == usr_list[NextHostIndex(usr_list, old_host)]
                rm1 == [rm EXCEPT !.host = {new_host}]
                lg1 == Send(rm1, lg, "NewHost", new_host)
                lg2 == lg1 \o [i \in 1 .. Cardinality(old_host) |->
                                Sent(CHOOSE h \in old_host : TRUE,
                                     ChangeHostCmd(FALSE))]
            IN [rm |-> rm1,
                log |-> Append(lg2, Sent(new_host, ChangeHostCmd(TRUE)))]

\* check_all_ready, the game end: GameEnd, the state, the host cycle when
\* cycle is set, ChangeState.
EndGameDropsChart(rm, lg) ==
    LET lg1 == Send(rm, lg, "GameEnd", 0)
        rm1 == [rm EXCEPT !.state = StateSelectChart, !.chart = {}]
        c == IF rm1.cycle THEN CycleHost(rm1, lg1) ELSE [rm |-> rm1, log |-> lg1]
    IN [rm |-> c.rm, log |-> OnStateChange(c.rm, c.log)]

\* The game end of check_all_ready: GameEnd, the state back to SelectChart,
\* the host cycled in a cycle room, then the state broadcast.
EndGame(rm, lg) ==
    LET lg1 == Send(rm, lg, "GameEnd", 0)
        rm1 == [rm EXCEPT !.state = StateSelectChart]
        c == IF rm1.cycle THEN CycleHost(rm1, lg1) ELSE [rm |-> rm1, log |-> lg1]
    IN [rm |-> c.rm, log |-> OnStateChange(c.rm, c.log)]

\* Room::check_all_ready.
CheckAllReady(rm, lg) ==
    IF rm.state.type = "WaitForReady" /\ AllReady(rm) THEN StartGame(rm, lg)
    ELSE IF rm.state.type = "Playing" /\ AllDone(rm) THEN EndGame(rm, lg)
    ELSE [rm |-> rm, log |-> lg]

\* A run of check_all_ready as the record of a handler keeps it: the room
\* it found, the room it left, and the length of the log when it began and
\* when it returned.
Checked(rm, lg) ==
    LET r == CheckAllReady(rm, lg)
    IN {[rm |-> rm, res |-> r.rm, at |-> Len(lg), end |-> Len(r.log)]}

\* The erase of on_user_leave: the references that no longer lock and the
\* leaver's.
RemoveUser(list, u) == SelectSeq(list, LAMBDA w : Alive(w) /\ w # u)

\* The erase of on_user_leave always taken from the member list.
LeaveEraseMembersOnly(rm, u) ==
    [rm EXCEPT !.users_ = SelectSeq(@, LAMBDA w : Alive(w) /\ w # u)]

\* The erase of on_user_leave with the test of the monitor flag inverted.
LeaveEraseOtherList(rm, u) ==
    IF users[u].monitor
    THEN [rm EXCEPT !.users_ = RemoveUser(@, u)]
    ELSE [rm EXCEPT !.monitors_ = RemoveUser(@, u)]

\* on_user_leave up to the erase: the leaver is taken from the list its
\* monitor flag names.
LeaveErase(rm, u) ==
    IF users[u].monitor
    THEN [rm EXCEPT !.monitors_ = RemoveUser(@, u)]
    ELSE [rm EXCEPT !.users_ = RemoveUser(@, u)]

\* ElectHost with the host pointer left on the departed host.
ElectHostNoStore(rm, lg, pick) ==
    LET new_host == RoomUsers(rm)[pick]
    IN [rm |-> rm,
        log |-> Append(Send(rm, lg, "NewHost", new_host),
                       Sent(new_host, ChangeHostCmd(TRUE)))]

\* ElectHost telling nobody in particular: the ChangeHost is not sent.
ElectHostNoChangeHost(rm, lg, pick) ==
    LET new_host == RoomUsers(rm)[pick]
        rm1 == [rm EXCEPT !.host = {new_host}]
    IN [rm |-> rm1, log |-> Send(rm1, lg, "NewHost", new_host)]

\* on_user_leave, the departed host replaced: the draw picks the new host
\* among the remaining members, NewHost is broadcast and ChangeHost(true)
\* sent to the new host.
ElectHost(rm, lg, pick) ==
    LET usr_list == RoomUsers(rm)
        new_host == usr_list[pick]
        rm1 == [rm EXCEPT !.host = {new_host}]
    IN [rm |-> rm1,
        log |-> Append(Send(rm1, lg, "NewHost", new_host),
                       Sent(new_host, ChangeHostCmd(TRUE)))]

\* on_user_leave returning after the host election: the closing
\* check_all_ready is not run.
OnUserLeaveNoCheck(rm, lg, u, pick) ==
    LET lg1 == Send(rm, lg, "LeaveRoom", u)
        rm1 == LeaveErase(rm, u)
    IN IF CheckHost(rm1, u) /\ RoomUsers(rm1) = <<>>
       THEN [rm |-> rm1, log |-> lg1, drop |-> TRUE, chk |-> {}]
       ELSE LET e == IF CheckHost(rm1, u) THEN ElectHost(rm1, lg1, pick)
                     ELSE [rm |-> rm1, log |-> lg1]
            IN [rm |-> e.rm, log |-> e.log, drop |-> FALSE, chk |-> {}]

\* Room::on_user_leave with the random draw fixed to pick (1-based).  The
\* result carries drop (the return value) and chk, the closing
\* check_all_ready.
OnUserLeaveWith(rm, lg, u, pick) ==
    LET lg1 == Send(rm, lg, "LeaveRoom", u)
        rm1 == LeaveErase(rm, u)
    IN IF CheckHost(rm1, u) /\ RoomUsers(rm1) = <<>>
       THEN [rm |-> rm1, log |-> lg1, drop |-> TRUE, chk |-> {}]
       ELSE LET e == IF CheckHost(rm1, u) THEN ElectHost(rm1, lg1, pick)
                     ELSE [rm |-> rm1, log |-> lg1]
                r == CheckAllReady(e.rm, e.log)
            IN [rm |-> r.rm, log |-> r.log, drop |-> FALSE,
                chk |-> Checked(e.rm, e.log)]

\* The values of the uniform draw over usr_list in on_user_leave
\* (dist(0, size - 1), 1-based here).
DistRange(rm, u) == 1 .. Max(1, Len(RoomUsers(LeaveErase(rm, u))))

\* Room::on_user_leave: every outcome of the random draw.
OnUserLeave(rm, lg, u) ==
    {OnUserLeaveWith(rm, lg, u, pick) : pick \in DistRange(rm, u)}

\* ----------------------------------------------------------------- registry

\* The Room object a user holds (User::get_room), as a slot.
RoomOf(u) == CHOOSE s \in users[u].room : TRUE

InRoom(u) == users[u].exists /\ users[u].online /\ users[u].room # {}

\* A Room object lives while the rooms map or some User holds it; a slot
\* nothing holds is empty again.
Held(s, us, reg) ==
    \/ \E id \in RoomIds : s \in reg[id]
    \/ \E u \in AllUsers : s \in us[u].room

Collect(rs, us, reg) ==
    [s \in Slots |-> IF Held(s, us, reg) THEN rs[s] ELSE NullRoom]

FreeSlots == {s \in Slots : room[s].id = ""}

\* A Session as its constructor leaves it: alive, the socket open, the
\* SendQueue open and empty, the writer running.  sent, offered, popped and
\* stopped record what the producers, the writer and the callers of stop
\* have done.
NoQueue ==
    [q |-> [queue_ |-> <<>>, closed_ |-> FALSE],
     alive |-> TRUE,
     rd |-> "open",
     writer |-> "run",
     sent |-> [p \in Producers |-> 0],
     offered |-> <<>>,
     popped |-> <<>>,
     stopped |-> {}]

\* No thread is followed.
NoThreads == <<>>

\* No codec call.
NoCodec == [fn |-> "none", in |-> <<>>, done |-> FALSE, out |-> <<>>]

\* The end of every handler: the new registry and rooms, and the record of
\* what the handler sent.
CommitNet(name, u, rs, us, reg, lg, ck, nt) ==
    /\ config' = config
    /\ users' = us
    /\ rooms' = reg
    /\ room' = Collect(rs, us, reg)
    /\ log' = lg
    /\ chk' = ck
    /\ op' = [name |-> name, user |-> u]
    /\ net' = nt
    /\ sq' = sq
    /\ codec' = codec
    /\ thr' = thr

\* The end of a handler that leaves the sessions alone.
Commit(name, u, rs, us, reg, lg, ck) ==
    CommitNet(name, u, rs, us, reg, lg, ck, net)

\* The reply of a handler to its sender.
Reply(lg, u, type) == Append(lg, Sent(u, SimpleOk(type)))

\* ----------------------------------------------------------------- the net

\* A Session: st is "new" before accept, "open" while the sessions map holds
\* it, "gone" once erased; user is the User bound by Authenticate (0: none);
\* pushed are the activities that signalled the lost connection; reaps and
\* dangles count the reaper's stop and dangle calls for it.
NoSession ==
    [st |-> "new", user |-> 0, alive |-> FALSE, pushed |-> {},
     reaps |-> 0, dangles |-> 0]

\* The reaper between two iterations of its loop.
ReaperIdle == [pc |-> "idle", sid |-> 0, user |-> 0]

\* sessions: ServerState::sessions and the Session objects; queue:
\* lost_con_queue; cur: User::session of each user; timers: the grace
\* windows running for each user, "valid" while its dangle mark stands and
\* "stale" once a session was bound again; reaper: lost_connection_loop;
\* last: the session of the last step of the session game.
NoNet ==
    [sessions |-> [i \in SessionIds |-> NoSession],
     queue |-> <<>>,
     cur |-> [u \in Clients |-> {}],
     timers |-> [u \in Clients |-> {}],
     reaper |-> ReaperIdle,
     last |-> 0]

\* --------------------------------------------------------------------- Init

Init ==
    /\ config = DefaultConfig
    /\ users = [u \in AllUsers |-> NoUser]
    /\ rooms = [id \in RoomIds |-> {}]
    /\ room = [s \in Slots |-> NullRoom]
    /\ log = <<>>
    /\ chk = {}
    /\ op = [name |-> "Init", user |-> 0]
    /\ net = NoNet
    /\ sq = NoQueue
    /\ codec = NoCodec
    /\ thr = NoThreads

\* ----------------------------------------------------------------- sessions

\* Session::handle_authenticate, success: a new User is created and bound,
\* or the User of a lost session is bound again with its room kept.
Authenticate(u) ==
    /\ ~users[u].online
    /\ Commit("Authenticate", u, room,
              [users EXCEPT ![u] = IF @.exists THEN [@ EXCEPT !.online = TRUE]
                                   ELSE [NoUser EXCEPT !.exists = TRUE,
                                                       !.online = TRUE]],
              rooms, <<Sent(u, SimpleOk("Authenticate"))>>, {})

\* The session of u is lost: the reaper stops it and calls User::dangle.
Disconnect(u) ==
    /\ users[u].exists /\ users[u].online
    /\ Commit("Disconnect", u, room, [users EXCEPT ![u].online = FALSE],
              rooms, <<>>, {})

\* The grace window of User::dangle ends with no session bound again: the
\* user leaves its room by the leave protocol and is erased from the users
\* map.
DangleRemove(u, nt) ==
    IF users[u].room = {}
    THEN CommitNet("DangleTimeout", u, room, [users EXCEPT ![u] = NoUser],
                   rooms, <<>>, {}, nt)
    ELSE LET s == RoomOf(u) IN
         \E res \in OnUserLeave(room[s], <<>>, u) :
             CommitNet("DangleTimeout", u, [room EXCEPT ![s] = res.rm],
                       [users EXCEPT ![u] = NoUser],
                       IF res.drop THEN [rooms EXCEPT ![room[s].id] = {}]
                       ELSE rooms,
                       res.log, res.chk, nt)

DangleTimeout(u) ==
    /\ users[u].exists /\ ~users[u].online
    /\ DangleRemove(u, net)

\* ----------------------------------------------------------------- commands

\* CreateRoom: the id must be free and the user in no room; the Room is
\* made with the user as host and member, and registered.
CreateRoom(u, id) ==
    /\ users[u].exists /\ users[u].online /\ users[u].room = {}
    /\ rooms[id] = {}
    /\ FreeSlots # {}
    /\ LET s == CHOOSE x \in FreeSlots : \A y \in FreeSlots : x <= y
           rm == NewRoom(id, u)
       IN Commit("CreateRoom", u, [room EXCEPT ![s] = rm],
                 [users EXCEPT ![u].room = {s}, ![u].monitor = FALSE],
                 [rooms EXCEPT ![id] = {s}],
                 Send(rm, Reply(<<>>, u, "CreateRoom"), "CreateRoom", u), {})

\* JoinRoom: the room exists, a monitor must be allowed to monitor, the
\* user is in no room, a member cannot enter a locked room, and add_user
\* decides on the cap.
JoinRoom(u, id, monitor) ==
    /\ users[u].exists /\ users[u].online /\ users[u].room = {}
    /\ rooms[id] # {}
    /\ monitor => CanMonitor(u)
    /\ LET s == CHOOSE x \in rooms[id] : TRUE
           res == AddUser(room[s], u, monitor)
       IN /\ monitor \/ ~room[s].locked
          /\ res.ok
          /\ Commit("JoinRoom", u, [room EXCEPT ![s] = res.rm],
                    [users EXCEPT ![u].room = {s}, ![u].monitor = monitor],
                    rooms,
                    Append(Send(res.rm,
                                Broadcast(res.rm, <<>>, OnJoinRoomCmd(u)),
                                "JoinRoom", u),
                           Sent(u, SimpleOk("SJoinRoom"))),
                    {})

\* JoinRoom as member refused by add_user: the reply is the room-full
\* error, nobody else hears of it and the user stays outside.
JoinRoomFull(u, id) ==
    /\ users[u].exists /\ users[u].online /\ users[u].room = {}
    /\ rooms[id] # {}
    /\ LET s == CHOOSE x \in rooms[id] : TRUE
           res == AddUser(room[s], u, FALSE)
       IN /\ ~room[s].locked
          /\ ~res.ok
          /\ Commit("JoinRoomFull", u, [room EXCEPT ![s] = res.rm], users,
                    rooms, <<Sent(u, SimpleErr("SJoinRoom", "room-full"))>>,
                    {})

\* LeaveRoom: the leave protocol; the room is erased from the registry when
\* on_user_leave returns true.
LeaveRoom(u) ==
    /\ InRoom(u)
    /\ LET s == RoomOf(u) IN
       \E res \in OnUserLeave(room[s], <<>>, u) :
           Commit("LeaveRoom", u, [room EXCEPT ![s] = res.rm],
                  [users EXCEPT ![u].room = {}],
                  IF res.drop THEN [rooms EXCEPT ![room[s].id] = {}] ELSE rooms,
                  Reply(res.log, u, "LeaveRoom"), res.chk)

\* LockRoom: host only.
LockRoom(u, flag) ==
    /\ InRoom(u)
    /\ LET s == RoomOf(u)
           rm == [room[s] EXCEPT !.locked = flag]
       IN /\ CheckHost(room[s], u)
          /\ Commit("LockRoom", u, [room EXCEPT ![s] = rm], users, rooms,
                    Reply(Broadcast(rm, <<>>, MsgFlag("LockRoom", flag)),
                          u, "LockRoom"), {})

\* CycleRoom: host only.
CycleRoom(u, flag) ==
    /\ InRoom(u)
    /\ LET s == RoomOf(u)
           rm == [room[s] EXCEPT !.cycle = flag]
       IN /\ CheckHost(room[s], u)
          /\ Commit("CycleRoom", u, [room EXCEPT ![s] = rm], users, rooms,
                    Reply(Broadcast(rm, <<>>, MsgFlag("CycleRoom", flag)),
                          u, "CycleRoom"), {})

\* SelectChart: host only, in SelectChart; the chart the lookup returns is
\* stored.
SelectChart(u, c) ==
    /\ InRoom(u)
    /\ LET s == RoomOf(u)
           rm == [room[s] EXCEPT !.chart = {c}]
       IN /\ CheckHost(room[s], u)
          /\ room[s].state.type = "SelectChart"
          /\ Commit("SelectChart", u, [room EXCEPT ![s] = rm], users, rooms,
                    Reply(OnStateChange(rm, Send(rm, <<>>, "SelectChart", u)),
                          u, "SelectChart"), {})

\* RequestStart: host only, in SelectChart with a chart chosen.
RequestStart(u) ==
    /\ InRoom(u)
    /\ LET s == RoomOf(u)
           rm == [room[s] EXCEPT !.state = StateWaitForReady({})]
       IN /\ CheckHost(room[s], u)
          /\ room[s].state.type = "SelectChart"
          /\ room[s].chart # {}
          /\ Commit("RequestStart", u, [room EXCEPT ![s] = rm], users, rooms,
                    Reply(OnStateChange(rm, Send(rm, <<>>, "GameStart", u)),
                          u, "RequestStart"), {})

\* Ready accepted in any state of the room.
ReadyAllowedAnyState(rm, u) == u \notin rm.state.started

\* The precondition of Ready: WaitForReady and the user not yet in started.
ReadyAllowed(rm, u) ==
    rm.state.type = "WaitForReady" /\ u \notin rm.state.started

\* Ready: in WaitForReady, by a user not yet in started; then
\* check_all_ready.
Ready(u) ==
    /\ InRoom(u)
    /\ LET s == RoomOf(u)
           rm == [room[s] EXCEPT !.state.started = @ \cup {u}]
           lg == Reply(Send(rm, <<>>, "Ready", u), u, "Ready")
           r == CheckAllReady(rm, lg)
       IN /\ ReadyAllowed(room[s], u)
          /\ Commit("Ready", u, [room EXCEPT ![s] = r.rm], users, rooms,
                    r.log, Checked(rm, lg))

\* CancelReady: the reverse of Ready.
CancelReady(u) ==
    /\ InRoom(u)
    /\ LET s == RoomOf(u)
           rm == [room[s] EXCEPT !.state.started = @ \ {u}]
       IN /\ room[s].state.type = "WaitForReady"
          /\ u \in room[s].state.started
          /\ Commit("CancelReady", u, [room EXCEPT ![s] = rm], users, rooms,
                    Reply(Send(rm, <<>>, "CancelReady", u), u, "CancelReady"),
                    {})

\* Ready refused: the error reply and nothing else.
ReadyFail(u) ==
    /\ InRoom(u)
    /\ ~ReadyAllowed(room[RoomOf(u)], u)
    /\ Commit("ReadyFail", u, room, users, rooms,
              <<Sent(u, SimpleErr("Ready", "bad-state"))>>, {})

\* Played and Abort accepted in any state of the room.
PlayedAllowedAnyState(rm, u, c) ==
    u \notin rm.state.results /\ rm.chart = {c}

AbortAllowedAnyState(rm, u) == TRUE

\* The precondition of Played: Playing, no result of the user yet, and the
\* chart of the room.
PlayedAllowed(rm, u, c) ==
    /\ rm.state.type = "Playing"
    /\ u \notin rm.state.results
    /\ rm.chart = {c}

\* The precondition of Abort: Playing.
AbortAllowed(rm, u) == rm.state.type = "Playing"

\* Played: in Playing, by a member with no result and no abort, for the
\* room's chart; the record is stored, then the completion check runs.
Played(u, c) ==
    /\ InRoom(u)
    /\ LET s == RoomOf(u)
           rm == [room[s] EXCEPT !.state.results = @ \cup {u}]
           lg == Reply(Send(rm, <<>>, "Played", u), u, "Played")
           r == CheckAllReady(rm, lg)
       IN /\ PlayedAllowed(room[s], u, c)
          /\ ~users[u].monitor
          /\ u \notin room[s].state.aborted
          /\ Commit("Played", u, [room EXCEPT ![s] = r.rm], users, rooms,
                    r.log, Checked(rm, lg))

\* Abort: in Playing, by a member with no result and no abort; then the
\* completion check runs.
Abort(u) ==
    /\ InRoom(u)
    /\ LET s == RoomOf(u)
           rm == [room[s] EXCEPT !.state.aborted = @ \cup {u}]
           lg == Reply(Send(rm, <<>>, "Abort", u), u, "Abort")
           r == CheckAllReady(rm, lg)
       IN /\ AbortAllowed(room[s], u)
          /\ ~users[u].monitor
          /\ u \notin room[s].state.results \cup room[s].state.aborted
          /\ Commit("Abort", u, [room EXCEPT ![s] = r.rm], users, rooms,
                    r.log, Checked(rm, lg))

\* Played refused: the error reply and nothing else.
PlayedFail(u, c) ==
    /\ InRoom(u)
    /\ ~PlayedAllowed(room[RoomOf(u)], u, c)
    /\ Commit("PlayedFail", u, room, users, rooms,
              <<Sent(u, SimpleErr("Played",
                                  IF room[RoomOf(u)].state.type = "Playing"
                                     /\ room[RoomOf(u)].chart # {c}
                                  THEN "bad-chart" ELSE "bad-state"))>>, {})

\* Abort refused: the error reply and nothing else.
AbortFail(u) ==
    /\ InRoom(u)
    /\ ~AbortAllowed(room[RoomOf(u)], u)
    /\ Commit("AbortFail", u, room, users, rooms,
              <<Sent(u, SimpleErr("Abort", "bad-state"))>>, {})

\* Touches and Judges: in Playing, or in WaitForReady, the frames go to the
\* monitors of the room, tagged with the player; there is no reply.
Touches(u) ==
    /\ InRoom(u)
    /\ room[RoomOf(u)].state.type \in {"Playing", "WaitForReady"}
    /\ Commit("Touches", u, room, users, rooms,
              BroadcastMonitors(room[RoomOf(u)], <<>>, TouchesCmd(u)), {})

Judges(u) ==
    /\ InRoom(u)
    /\ room[RoomOf(u)].state.type \in {"Playing", "WaitForReady"}
    /\ Commit("Judges", u, room, users, rooms,
              BroadcastMonitors(room[RoomOf(u)], <<>>, JudgesCmd(u)), {})

\* LockRoom, CycleRoom, SelectChart and RequestStart refused: the error
\* reply and nothing else.
LockRoomFail(u, flag) ==
    /\ InRoom(u)
    /\ ~CheckHost(room[RoomOf(u)], u)
    /\ Commit("LockRoomFail", u, room, users, rooms,
              <<Sent(u, SimpleErr("LockRoom", "not-host"))>>, {})

CycleRoomFail(u, flag) ==
    /\ InRoom(u)
    /\ ~CheckHost(room[RoomOf(u)], u)
    /\ Commit("CycleRoomFail", u, room, users, rooms,
              <<Sent(u, SimpleErr("CycleRoom", "not-host"))>>, {})

SelectChartFail(u, c) ==
    /\ InRoom(u)
    /\ ~(/\ CheckHost(room[RoomOf(u)], u)
         /\ room[RoomOf(u)].state.type = "SelectChart")
    /\ Commit("SelectChartFail", u, room, users, rooms,
              <<Sent(u, SimpleErr("SelectChart",
                                  IF CheckHost(room[RoomOf(u)], u)
                                  THEN "bad-state" ELSE "not-host"))>>, {})

RequestStartFail(u) ==
    /\ InRoom(u)
    /\ ~(/\ CheckHost(room[RoomOf(u)], u)
         /\ room[RoomOf(u)].state.type = "SelectChart"
         /\ room[RoomOf(u)].chart # {})
    /\ Commit("RequestStartFail", u, room, users, rooms,
              <<Sent(u, SimpleErr("RequestStart",
                                  IF CheckHost(room[RoomOf(u)], u)
                                  THEN "bad-state" ELSE "not-host"))>>, {})

\* A handler that stores its mutation before the collaborator has answered.
AfterFailedLookupSpeculative(rm, stored) == stored

\* The room once the collaborator of a handler has failed: the mutation the
\* handler would have stored is made after the collaborator returns, so
\* the room is as it was.
AfterFailedLookup(rm, stored) == rm

\* SelectChart whose chart lookup fails: the error reply of the
\* collaborator.
SelectChartLookupFail(u, c) ==
    /\ InRoom(u)
    /\ LET s == RoomOf(u)
           rm == AfterFailedLookup(room[s], [room[s] EXCEPT !.chart = {c}])
       IN /\ CheckHost(room[s], u)
          /\ room[s].state.type = "SelectChart"
          /\ Commit("SelectChartLookupFail", u, [room EXCEPT ![s] = rm],
                    users, rooms,
                    <<Sent(u, SimpleErr("SelectChart", "lookup-failed"))>>, {})

\* Played whose record lookup fails: the error reply of the collaborator.
PlayedLookupFail(u, c) ==
    /\ InRoom(u)
    /\ LET s == RoomOf(u)
           rm == AfterFailedLookup(room[s],
                     [room[s] EXCEPT !.state.results = @ \cup {u}])
       IN /\ PlayedAllowed(room[s], u, c)
          /\ ~users[u].monitor
          /\ u \notin room[s].state.aborted
          /\ Commit("PlayedLookupFail", u, [room EXCEPT ![s] = rm],
                    users, rooms,
                    <<Sent(u, SimpleErr("Played", "lookup-failed"))>>, {})

\* ------------------------------------------------------- sessions and reaper

\* ServerState::push_lost_connection: the id goes to the back of the queue.
PushLostConnection(q, id) == Append(q, id)

\* A stop that leaves the session running.
StopNothing(ss) == ss

\* Session::stop: idempotent, alive becomes false.
Stop(ss) == [ss EXCEPT !.alive = FALSE]

\* The reaper's test that the session is still the one its user is bound to.
IsCurrent(nt, id, u) == nt.cur[u] = {id}

\* set_session that leaves the dangle mark standing.
SetSessionKeepsMark(nt, u, sid) == [nt EXCEPT !.cur[u] = {sid}]

\* User::set_session: the binding is swapped and the dangle mark dropped, so
\* a grace window that was running no longer counts.
SetSession(nt, u, sid) ==
    [nt EXCEPT !.cur[u] = {sid},
               !.timers[u] = IF "valid" \in @ THEN (@ \ {"valid"}) \cup {"stale"}
                             ELSE @]

\* User::dangle: a new mark and a grace window on it; a window that was
\* running on the previous mark no longer counts.
Dangle(nt, u) ==
    [nt EXCEPT !.timers[u] = IF "valid" \in @ THEN @ \cup {"stale"}
                             ELSE @ \cup {"valid"}]

\* The users once session sid is dead: its user, if still bound to it, can
\* send nothing more.
Offline(us, nt, sid) ==
    LET u == nt.sessions[sid].user
    IN IF u # 0 /\ nt.cur[u] = {sid} THEN [us EXCEPT ![u].online = FALSE]
       ELSE us

\* accept_one: a Session is made and stored in the sessions map.
Accept(sid) ==
    /\ net.sessions[sid].st = "new"
    /\ CommitNet("Accept", 0, room, users, rooms, <<>>, {},
                 [net EXCEPT !.sessions[sid].st = "open",
                             !.sessions[sid].alive = TRUE,
                             !.last = sid])

\* Session::handle_authenticate, success, on a session not yet bound: the
\* user is made, or bound again with its previous session stopped if still
\* alive; its room is kept.
HandleAuthenticate(sid, u) ==
    /\ net.sessions[sid].st = "open" /\ net.sessions[sid].alive
    /\ net.sessions[sid].user = 0
    /\ LET n1 == [net EXCEPT !.sessions =
                      [i \in SessionIds |->
                          IF i = sid THEN [@[i] EXCEPT !.user = u]
                          ELSE IF users[u].exists /\ i \in net.cur[u]
                               THEN Stop(@[i])
                               ELSE @[i]],
                      !.last = sid]
           us == [users EXCEPT ![u] = IF @.exists THEN [@ EXCEPT !.online = TRUE]
                                     ELSE [NoUser EXCEPT !.exists = TRUE,
                                                         !.online = TRUE]]
       IN CommitNet("Authenticate", u, room, us, rooms,
                    <<Sent(u, SimpleOk("Authenticate"))>>, {},
                    SetSession(n1, u, sid))

\* The kinds of command a client may send first on a session.
Kinds == {"Authenticate", "Ping", "CreateRoom"}

\* A reader that dispatches every command, authenticated or not.
AcceptedAlways(ss, kind) == TRUE

\* The reader's test before dispatch: until the session is authenticated
\* only Authenticate is accepted.
Accepted(ss, kind) == ss.user # 0 \/ kind = "Authenticate"

\* Ping on a session: Pong is the reply.
SessionPing(sid) ==
    /\ net.sessions[sid].st = "open" /\ net.sessions[sid].alive
    /\ Accepted(net.sessions[sid], "Ping")
    /\ CommitNet("Ping", net.sessions[sid].user, room, users, rooms,
                 <<Sent(net.sessions[sid].user, Cmd("Pong"))>>, {},
                 [net EXCEPT !.last = sid])

\* A command that is not accepted is a protocol error: the reader sets
\* alive to false and pushes the id of the session to the lost-connection
\* queue; no reply is sent.
ProtocolError(sid, kind) ==
    /\ net.sessions[sid].st = "open" /\ net.sessions[sid].alive
    /\ "reader" \notin net.sessions[sid].pushed
    /\ ~Accepted(net.sessions[sid], kind)
    /\ CommitNet("ProtocolError", net.sessions[sid].user, room,
                 Offline(users, net, sid), rooms, <<>>, {},
                 [net EXCEPT !.sessions[sid] =
                                 [Stop(@) EXCEPT !.pushed = @ \cup {"reader"}],
                             !.queue = PushLostConnection(@, sid),
                             !.last = sid])

\* The reader, the writer or the heartbeat of a session detects a failure:
\* alive becomes false and the id is pushed to the lost-connection queue,
\* once per activity (the heartbeat exits without a push once alive is
\* false).
Fail(sid, act) ==
    /\ net.sessions[sid].st # "new"
    /\ act \notin net.sessions[sid].pushed
    /\ act = "heartbeat" => net.sessions[sid].alive
    /\ CommitNet("Fail", net.sessions[sid].user, room,
                 Offline(users, net, sid), rooms, <<>>, {},
                 [net EXCEPT !.sessions[sid] =
                                 [Stop(@) EXCEPT !.pushed = @ \cup {act}],
                             !.queue = PushLostConnection(@, sid),
                             !.last = sid])

\* lost_connection_loop without the test of the map: every id taken from
\* the queue is treated as a session found.
ReapFoundAlways(nt, id) == nt.sessions[id].st # "new"

\* lost_connection_loop that finds no session for any id.
ReapFoundNever(nt, id) == FALSE

\* lost_connection_loop, the lookup: the session is in the sessions map.
ReapFound(nt, id) == nt.sessions[id].st = "open"

\* lost_connection_loop, from the pop to the test of the current session:
\* the id is taken from the front; a session found in the map is erased
\* and stopped, and if it is still its user's current session the reaper
\* goes on to dangle the user.
ReapTake ==
    /\ net.reaper.pc = "idle"
    /\ net.queue # <<>>
    /\ LET id == Head(net.queue)
           ss == net.sessions[id]
           found == ReapFound(net, id)
           dang == found /\ ss.user # 0 /\ IsCurrent(net, id, ss.user)
       IN CommitNet("ReapTake", ss.user, room,
                    IF found THEN Offline(users, net, id) ELSE users,
                    rooms, <<>>, {},
                    [net EXCEPT
                        !.queue = Tail(@),
                        !.sessions[id] =
                            IF found
                            THEN [Stop(@) EXCEPT !.st = "gone",
                                                 !.reaps = @ + 1]
                            ELSE @,
                        !.reaper = IF dang
                                   THEN [pc |-> "dangle", sid |-> id,
                                         user |-> ss.user]
                                   ELSE ReaperIdle,
                        !.last = id])

\* lost_connection_loop, the call of User::dangle that follows the test.
ReapDangle ==
    /\ net.reaper.pc = "dangle"
    /\ LET u == net.reaper.user
           id == net.reaper.sid
           n1 == [net EXCEPT !.reaper = ReaperIdle,
                             !.sessions[id].dangles = @ + 1,
                             !.last = id]
       IN CommitNet("ReapDangle", u, room, users, rooms, <<>>, {},
                    IF users[u].exists THEN Dangle(n1, u) ELSE n1)

\* The grace window of a dangle ends and its mark still stands: the user
\* leaves its room by the leave protocol and is erased from the users map.
GraceElapsed(u) ==
    /\ "valid" \in net.timers[u]
    /\ users[u].exists
    /\ DangleRemove(u, [net EXCEPT !.timers[u] = {}, !.cur[u] = {},
                                   !.last = 0])

\* The grace window of a dangle ends after a session was bound again:
\* nothing happens.
GraceStale(u) ==
    /\ "stale" \in net.timers[u]
    /\ CommitNet("GraceStale", u, room, users, rooms, <<>>, {},
                 [net EXCEPT !.timers[u] = @ \ {"stale"}, !.last = 0])

\* --------------------------------------------------------------------- Next

\* The room game: every handler, on one Room object at a time (a room is
\* created once the previous Room object is gone; the sessions lost are
\* those of users in a room).
OneRoom == \A s \in Slots : room[s].id = ""

Next ==
    \/ \E u \in Users : Authenticate(u)
    \/ \E u \in Users : users[u].room # {} /\ Disconnect(u)
    \/ \E u \in Users : DangleTimeout(u)
    \/ \E u \in Users : OneRoom /\ CreateRoom(u, "R1")
    \/ \E u \in Users, monitor \in BOOLEAN : JoinRoom(u, "R1", monitor)
    \/ \E u \in Users : LeaveRoom(u)
    \/ \E u \in Users, flag \in BOOLEAN : CycleRoom(u, flag)
    \/ \E u \in Users, c \in ChartIds : SelectChart(u, c)
    \/ \E u \in Users : RequestStart(u)
    \/ \E u \in Users : Ready(u)
    \/ \E u \in Users : CancelReady(u)
    \/ \E u \in Users, c \in ChartIds : Played(u, c)
    \/ \E u \in Users : Abort(u)

Spec == Init /\ [][Next]_vars

\* Membership over several rooms: the handlers that change who is where.
NextRooms ==
    \/ \E u \in Users : Authenticate(u)
    \/ \E u \in Users : Disconnect(u)
    \/ \E u \in Users : DangleTimeout(u)
    \/ \E u \in Users, id \in RoomIds : CreateRoom(u, id)
    \/ \E u \in Users, id \in RoomIds, monitor \in BOOLEAN : JoinRoom(u, id, monitor)
    \/ \E u \in Users : LeaveRoom(u)
    \/ \E u \in Users, flag \in BOOLEAN : LockRoom(u, flag)

SpecRooms == Init /\ [][NextRooms]_vars

\* The cap game: every user is authenticated, and room R1 holds its creator
\* and the members that joined after it, up to CapStay; the others join as
\* member or as monitor and leave, in any order.
CapConfig == [monitors |-> {ROOM_MAX_USERS + 1, ROOM_MAX_USERS + 2}]

InitCap ==
    /\ config = CapConfig
    /\ users = [u \in AllUsers |->
                   [exists |-> TRUE, online |-> TRUE,
                    room |-> IF u <= CapStay THEN {1} ELSE {},
                    monitor |-> FALSE]]
    /\ rooms = [id \in RoomIds |-> IF id = "R1" THEN {1} ELSE {}]
    /\ room = [s \in Slots |->
                  IF s = 1
                  THEN [NewRoom("R1", 1) EXCEPT
                            !.users_ = [i \in 1 .. CapStay |-> i]]
                  ELSE NullRoom]
    /\ log = <<>>
    /\ chk = {}
    /\ op = [name |-> "Init", user |-> 0]
    /\ net = NoNet
    /\ sq = NoQueue
    /\ codec = NoCodec
    /\ thr = NoThreads

NextCap ==
    \/ \E u \in AllUsers, monitor \in BOOLEAN : JoinRoom(u, "R1", monitor)
    \/ \E u \in AllUsers : JoinRoomFull(u, "R1")
    \/ \E u \in AllUsers : u > CapStay /\ LeaveRoom(u)

SpecCap == InitCap /\ [][NextCap]_vars

\* The session game: connections are accepted, authenticate, fail and are
\* reaped, grace windows end, and the users make, join and leave room R1.
NextSessions ==
    \/ \E sid \in SessionIds : Accept(sid)
    \/ \E sid \in SessionIds, u \in Clients : HandleAuthenticate(sid, u)
    \/ \E sid \in SessionIds, act \in Activities : Fail(sid, act)
    \/ ReapTake
    \/ ReapDangle
    \/ \E u \in Clients : GraceElapsed(u)
    \/ \E u \in Clients : GraceStale(u)
    \/ \E u \in Clients : OneRoom /\ CreateRoom(u, "R1")
    \/ \E u \in Clients : JoinRoom(u, "R1", FALSE)
    \/ \E u \in Clients : LeaveRoom(u)

SpecSessions == Init /\ [][NextSessions]_vars

\* The monitored game: room R1 with members 1 and 2 and monitor 3, as it is
\* once 1 has made it, 2 has joined and 3 has joined as monitor; the
\* commands of a game, accepted and refused, the telemetry, and leaves and
\* joins, in any order.
GameCharts == {42, 43}

GameConfig == [monitors |-> {3}]

InitGame ==
    /\ config = GameConfig
    /\ users = [u \in AllUsers |->
                   IF u \in Users
                   THEN [exists |-> TRUE, online |-> TRUE, room |-> {1},
                         monitor |-> (u = 3)]
                   ELSE NoUser]
    /\ rooms = [id \in RoomIds |-> IF id = "R1" THEN {1} ELSE {}]
    /\ room = [s \in Slots |->
                  IF s = 1
                  THEN [NewRoom("R1", 1) EXCEPT !.users_ = <<1, 2>>,
                                               !.monitors_ = <<3>>]
                  ELSE NullRoom]
    /\ log = <<>>
    /\ chk = {}
    /\ op = [name |-> "Init", user |-> 0]
    /\ net = NoNet
    /\ sq = NoQueue
    /\ codec = NoCodec
    /\ thr = NoThreads

NextGame ==
    \/ \E u \in Users, c \in GameCharts : SelectChart(u, c)
    \/ \E u \in Users : RequestStart(u)
    \/ \E u \in Users : Ready(u)
    \/ \E u \in Users : ReadyFail(u)
    \/ \E u \in Users : CancelReady(u)
    \/ \E u \in Users, c \in GameCharts : Played(u, c)
    \/ \E u \in Users, c \in GameCharts : PlayedFail(u, c)
    \/ \E u \in Users : Abort(u)
    \/ \E u \in Users : AbortFail(u)
    \/ \E u \in Users : Touches(u)
    \/ \E u \in Users : Judges(u)
    \/ \E u \in Users : LeaveRoom(u)
    \/ \E u \in Users, monitor \in BOOLEAN : JoinRoom(u, "R1", monitor)

SpecGame == InitGame /\ [][NextGame]_vars

\* The refusals: the room of the monitored game with the host-only commands
\* and the collaborator lookups, accepted and refused.
NextRefuse ==
    \/ \E u \in Users, flag \in BOOLEAN : LockRoom(u, flag)
    \/ \E u \in Users, flag \in BOOLEAN : LockRoomFail(u, flag)
    \/ \E u \in Users, flag \in BOOLEAN : CycleRoom(u, flag)
    \/ \E u \in Users, flag \in BOOLEAN : CycleRoomFail(u, flag)
    \/ \E u \in Users, c \in GameCharts : SelectChart(u, c)
    \/ \E u \in Users, c \in GameCharts : SelectChartFail(u, c)
    \/ \E u \in Users, c \in GameCharts : SelectChartLookupFail(u, c)
    \/ \E u \in Users : RequestStart(u)
    \/ \E u \in Users : RequestStartFail(u)
    \/ \E u \in Users : Ready(u)
    \/ \E u \in Users, c \in GameCharts : Played(u, c)
    \/ \E u \in Users, c \in GameCharts : PlayedLookupFail(u, c)
    \/ \E u \in Users : Abort(u)
    \/ \E u \in Users : LeaveRoom(u)

SpecRefuse == InitGame /\ [][NextRefuse]_vars

\* ------------------------------------------------- one session, seen closely

\* push that does not look at closed_.
PushIgnoresClose(q, cmd) == [q EXCEPT !.queue_ = Append(@, cmd)]

\* SendQueue::push: the command is appended unless the queue is closed.
Push(q, cmd) ==
    IF q.closed_ THEN q ELSE [q EXCEPT !.queue_ = Append(@, cmd)]

\* pop that takes the newest command.
PopNewest(q) ==
    [cmd |-> q.queue_[Len(q.queue_)],
     q |-> [q EXCEPT !.queue_ = SubSeq(@, 1, Len(@) - 1)]]

\* SendQueue::pop on a queue that is not empty: the front command.
Pop(q) == [cmd |-> Head(q.queue_), q |-> [q EXCEPT !.queue_ = Tail(@)]]

\* SendQueue::close.
Close(q) == [q EXCEPT !.closed_ = TRUE]

\* stop that leaves the send queue open.
SessionStopNoClose(ss) == [ss EXCEPT !.rd = "shut", !.alive = FALSE]

\* Session::stop: the send queue closed, the read half of the socket shut
\* down, alive false.
SessionStop(ss) ==
    [ss EXCEPT !.q = Close(@), !.rd = "shut", !.alive = FALSE]

QueueStep(nsq) ==
    /\ sq' = nsq
    /\ UNCHANGED <<config, users, rooms, room, log, chk, op, net, codec, thr>>

\* try_send of a producer (a handler, a broadcast of another session, the
\* heartbeat): its next command is pushed.
TrySend(p) ==
    /\ sq.sent[p] < MaxPush
    /\ LET cmd == <<p, sq.sent[p] + 1>>
       IN QueueStep([sq EXCEPT !.q = Push(@, cmd),
                               !.sent[p] = @ + 1,
                               !.offered = IF sq.q.closed_ THEN @
                                           ELSE Append(@, cmd)])

\* send_loop: one command is dequeued and written.
WriterPop ==
    /\ sq.writer = "run"
    /\ sq.q.queue_ # <<>>
    /\ QueueStep([sq EXCEPT !.q = Pop(sq.q).q,
                            !.popped = Append(@, Pop(sq.q).cmd)])

\* send_loop: the queue is closed and empty, the writer exits.
WriterExit ==
    /\ sq.writer = "run"
    /\ sq.q.closed_
    /\ sq.q.queue_ = <<>>
    /\ QueueStep([sq EXCEPT !.writer = "exited"])

\* stop called by the reaper, by a rebind or by an admin kick.
StopBy(who) ==
    /\ who \notin sq.stopped
    /\ QueueStep([SessionStop(sq) EXCEPT !.stopped = @ \cup {who}])

\* An activity of the session meets an I/O error: alive becomes false.
ActivityFail ==
    /\ sq.alive
    /\ QueueStep([sq EXCEPT !.alive = FALSE])

NextQueue ==
    \/ \E p \in Producers : TrySend(p)
    \/ WriterPop
    \/ WriterExit
    \/ \E who \in Stoppers : StopBy(who)
    \/ ActivityFail

SpecQueue == Init /\ [][NextQueue]_vars

\* The writer keeps running while it has something to do.
FairQueue == SpecQueue /\ WF_vars(WriterPop) /\ WF_vars(WriterExit)

\* ------------------------------------------------------------------ codec

\* A uint32_t is its 32 bits, bit 0 the lowest; the integers of the model
\* stay below 2^31.
U16(x) == x % 65536
Shr(x, n) == IF n >= 31 THEN 0 ELSE x \div (2 ^ n)

\* The uint32_t of an integer, modulo 2^32 (two's complement for a negative
\* one).
ToWord(x) ==
    LET y == IF x >= 0 THEN x ELSE (x + 2147483647) + 1
    IN [i \in 0 .. 31 |-> IF i = 31 THEN (IF x >= 0 THEN 0 ELSE 1)
                          ELSE (y \div (2 ^ i)) % 2]

ShlW(w, n) == [i \in 0 .. 31 |-> IF i >= n THEN w[i - n] ELSE 0]
OrW(v, w) == [i \in 0 .. 31 |-> IF v[i] = 1 \/ w[i] = 1 THEN 1 ELSE 0]

\* The integer of the n bits of a word from bit lo on (n below 32).
RECURSIVE Field(_, _, _)
Field(w, lo, n) ==
    IF n = 0 THEN 0 ELSE w[lo] + 2 * Field(w, lo + 1, n - 1)

RECURSIVE BitOr(_, _)
BitOr(a, b) ==
    IF a = 0 THEN b
    ELSE IF b = 0 THEN a
    ELSE (IF a % 2 = 1 \/ b % 2 = 1 THEN 1 ELSE 0)
             + 2 * BitOr(a \div 2, b \div 2)

\* The loop of f16_to_f32 on a subnormal: man is shifted left until bit
\* 0x400 is set, and exp, a uint32_t, is counted down through 0 (exp is
\* kept as the integer it is modulo 2^32).
RECURSIVE Normalize(_, _)
Normalize(man, exp) ==
    IF (man \div 1024) % 2 = 1 THEN [man |-> man, exp |-> exp]
    ELSE Normalize(man * 2, exp - 1)

\* f16_to_f32, on the bit patterns: the 32 bits of the float.
F16ToF32(value) ==
    LET sign == ShlW(ToWord(((value \div 32768) % 2) * 32768), 16)
        exp == Shr(value, 10) % 32
        man == value % 1024
    IN IF exp = 0
       THEN IF man = 0 THEN sign
            ELSE LET n == Normalize(man, 1)
                 IN OrW(OrW(sign, ShlW(ToWord(n.exp + 127 - 15), 23)),
                        ShlW(ToWord(n.man % 1024), 13))
       ELSE IF exp = 31
            THEN OrW(OrW(sign, ToWord(2139095040)), ShlW(ToWord(man), 13))
            ELSE OrW(OrW(sign, ShlW(ToWord(exp + 127 - 15), 23)),
                     ShlW(ToWord(man), 13))

\* x >> n on a uint32_t: for n of 32 and more the behaviour is undefined,
\* and a build gives 0 or shifts by n modulo 32.
ShrU32(x, n) == IF n < 32 THEN {Shr(x, n)} ELSE {0, Shr(x, n % 32)}

\* f32_to_f16, on the bit patterns: the results a build can give.
F32ToF16(bits) ==
    LET sign == bits[31] * 32768
        exp == Field(bits, 23, 8) - 127
        man == Field(bits, 0, 23)
    IN IF exp = 128
       THEN IF man # 0 THEN {U16(BitOr(BitOr(sign, 31744), Shr(man, 13)))}
            ELSE {U16(BitOr(sign, 31744))}
       ELSE IF exp > 15 THEN {U16(BitOr(sign, 31744))}
       ELSE IF exp > -15
            THEN {U16(BitOr(BitOr(sign, (exp + 15) * 1024), Shr(man, 13)))}
       ELSE IF exp >= -24
            THEN {U16(BitOr(sign, x)) :
                      x \in ShrU32(BitOr(man, 8388608), -1 - exp + 13)}
       ELSE {U16(sign)}

\* A read that threw.
Thrown == [ok |-> FALSE, pos |-> 0, v |-> <<>>]

Read(pos, v) == [ok |-> TRUE, pos |-> pos, v |-> v]

\* BinaryReader::read_byte and take.
ReadByte(buf, pos) ==
    IF pos >= Len(buf) THEN Thrown ELSE Read(pos + 1, buf[pos + 1])

Take(buf, pos, n) ==
    IF pos + n > Len(buf) THEN Thrown
    ELSE Read(pos + n, SubSeq(buf, pos + 1, pos + n))

\* BinaryReader::read_uleb.
RECURSIVE ReadUlebFrom(_, _, _, _)
ReadUlebFrom(buf, pos, result, shift) ==
    LET b == ReadByte(buf, pos)
    IN IF ~b.ok THEN Thrown
       ELSE LET r == result + (b.v % 128) * (2 ^ shift)
            IN IF b.v \div 128 = 0 THEN Read(b.pos, r)
               ELSE ReadUlebFrom(buf, b.pos, r, shift + 7)

ReadUleb(buf, pos) == ReadUlebFrom(buf, pos, 0, 0)

\* BinaryReader::read_varchar.
ReadVarchar(buf, pos, max_len) ==
    LET len == ReadUleb(buf, pos)
    IN IF ~len.ok THEN Thrown
       ELSE IF len.v > max_len THEN Thrown
       ELSE Take(buf, len.pos, len.v)

\* BinaryWriter::write_uleb and write_string.
RECURSIVE WriteUleb(_)
WriteUleb(v) ==
    IF v \div 128 # 0 THEN <<(v % 128) + 128>> \o WriteUleb(v \div 128)
    ELSE <<v % 128>>

WriteString(s) == WriteUleb(Len(s)) \o s

\* isalnum of a locale in which the letters of Latin-1 are letters.
IsAlnumLatin1(c) ==
    \/ c \in 48 .. 57
    \/ c \in 65 .. 90
    \/ c \in 97 .. 122
    \/ c \in 192 .. 255

\* isalnum in the "C" locale, the locale of a program that never calls
\* setlocale.
IsAlnum(c) ==
    \/ c \in 48 .. 57
    \/ c \in 65 .. 90
    \/ c \in 97 .. 122

\* RoomId::validate.
Validate(s) ==
    IF Len(s) = 0 \/ Len(s) > 20 THEN FALSE
    ELSE \A i \in 1 .. Len(s) : ~(s[i] # 45 /\ s[i] # 95 /\ ~IsAlnum(s[i]))

\* RoomId::read_binary.
RoomIdRead(buf, pos) ==
    LET s == ReadVarchar(buf, pos, 20)
    IN IF ~s.ok THEN Thrown
       ELSE IF ~Validate(s.v) THEN Thrown
       ELSE s

\* JudgeEvent::read_binary: the judgement is the byte, cast.
JudgeEventRead(buf, pos) ==
    LET time == Take(buf, pos, 4)
        line_id == Take(buf, time.pos, 4)
        note_id == Take(buf, line_id.pos, 4)
        judgement == ReadByte(buf, note_id.pos)
    IN IF time.ok /\ line_id.ok /\ note_id.ok /\ judgement.ok
       THEN Read(judgement.pos, judgement.v)
       ELSE Thrown

\* TouchFrame::read_binary.
RECURSIVE ReadPoints(_, _, _)
ReadPoints(buf, pos, n) ==
    IF n = 0 THEN Read(pos, <<>>)
    ELSE LET id == ReadByte(buf, pos)
             p == Take(buf, id.pos, 4)
         IN IF id.ok /\ p.ok THEN ReadPoints(buf, p.pos, n - 1) ELSE Thrown

TouchFrameRead(buf, pos) ==
    LET time == Take(buf, pos, 4)
        n == ReadUleb(buf, time.pos)
    IN IF time.ok /\ n.ok THEN ReadPoints(buf, n.pos, n.v) ELSE Thrown

RECURSIVE ReadFrames(_, _, _)
ReadFrames(buf, pos, n) ==
    IF n = 0 THEN Read(pos, <<>>)
    ELSE LET f == TouchFrameRead(buf, pos)
         IN IF f.ok THEN ReadFrames(buf, f.pos, n - 1) ELSE Thrown

RECURSIVE ReadJudges(_, _, _)
ReadJudges(buf, pos, n) ==
    IF n = 0 THEN Read(pos, <<>>)
    ELSE LET e == JudgeEventRead(buf, pos)
         IN IF e.ok THEN ReadJudges(buf, e.pos, n - 1) ELSE Thrown

\* ClientCommand::read_binary: the kind is the byte, cast, and the switch has
\* a case for each of the sixteen kinds and no default.
ClientCommandRead(buf) ==
    LET type == ReadByte(buf, 0)
        t == type.v
        body ==
            IF t \in {0, 7, 11, 12, 13, 15} THEN Read(type.pos, <<>>)
            ELSE IF t = 1 THEN ReadVarchar(buf, type.pos, 32)
            ELSE IF t = 2 THEN ReadVarchar(buf, type.pos, 200)
            ELSE IF t = 3
                 THEN LET n == ReadUleb(buf, type.pos)
                      IN IF n.ok THEN ReadFrames(buf, n.pos, n.v) ELSE Thrown
            ELSE IF t = 4
                 THEN LET n == ReadUleb(buf, type.pos)
                      IN IF n.ok THEN ReadJudges(buf, n.pos, n.v) ELSE Thrown
            ELSE IF t = 5 THEN RoomIdRead(buf, type.pos)
            ELSE IF t = 6
                 THEN LET id == RoomIdRead(buf, type.pos)
                      IN IF id.ok THEN ReadByte(buf, id.pos) ELSE Thrown
            ELSE IF t \in {8, 9} THEN ReadByte(buf, type.pos)
            ELSE IF t \in {10, 14} THEN Take(buf, type.pos, 4)
            ELSE Read(type.pos, <<>>)
    IN IF ~type.ok THEN Thrown
       ELSE IF ~body.ok THEN Thrown
       ELSE Read(body.pos, t)

\* The strings given to the RoomId decoder: a run of one character of the
\* alphabet, of every length up to MaxIdLen, with one character of any
\* kind put in at any place.
IdFill == {45, 48, 57, 65, 95, 122}

IdOdd ==
    {0, 32, 44, 46, 47, 58, 64, 91, 94, 96, 123, 127, 128, 192, 233, 255,
     45, 95, 90, 97}

IdStrings(max) ==
    {[i \in 1 .. len |-> IF i = at THEN c ELSE f] :
        len \in 0 .. max, at \in 0 .. max, c \in IdOdd, f \in IdFill}

\* The frames given to the command decoder: every kind byte, followed by
\* nothing, a flag, a chart id, a room id, a room id and a flag, no frames,
\* or one judge event of every judgement byte.
JudgeEventBytes(j) == <<0, 0, 128, 63, 1, 0, 0, 0, 2, 0, 0, 0, j>>

Payloads ==
    {<<>>, <<1>>, <<42, 0, 0, 0>>, <<2, 82, 49>>, <<2, 82, 49, 1>>, <<0>>}

CommandFrames ==
    {<<k>> \o p : k \in 0 .. 255, p \in Payloads}
        \cup {<<4, 1>> \o JudgeEventBytes(j) : j \in 0 .. 255}

CodecInputs(max) ==
    {[fn |-> "f16", in |-> <<h>>] : h \in 0 .. 65535}
        \cup {[fn |-> "roomid", in |-> s] : s \in IdStrings(max)}
        \cup {[fn |-> "command", in |-> f] : f \in CommandFrames}
        \cup {[fn |-> "judge", in |-> JudgeEventBytes(j)] : j \in 0 .. 255}

InitCodec ==
    /\ config = DefaultConfig
    /\ users = [u \in AllUsers |-> NoUser]
    /\ rooms = [id \in RoomIds |-> {}]
    /\ room = [s \in Slots |-> NullRoom]
    /\ log = <<>>
    /\ chk = {}
    /\ op = [name |-> "Init", user |-> 0]
    /\ net = NoNet
    /\ sq = NoQueue
    /\ thr = NoThreads
    /\ \E i \in CodecInputs(MaxIdLen) :
           codec = [fn |-> i.fn, in |-> i.in, done |-> FALSE, out |-> <<>>]

CodecStep(out) ==
    /\ ~codec.done
    /\ codec' = [codec EXCEPT !.done = TRUE, !.out = out]
    /\ UNCHANGED <<config, users, rooms, room, log, chk, op, net, sq, thr>>

\* A half-float is widened and narrowed again.
RoundTripF16 ==
    /\ codec.fn = "f16"
    /\ \E h \in F32ToF16(F16ToF32(codec.in[1])) : CodecStep(Read(0, h))

\* A RoomId is written as a field and the field decoded.
DecodeRoomId ==
    /\ codec.fn = "roomid"
    /\ CodecStep(RoomIdRead(WriteString(codec.in), 0))

\* A frame is decoded as a ClientCommand.
DecodeCommand ==
    /\ codec.fn = "command"
    /\ CodecStep(ClientCommandRead(codec.in))

\* The bytes of a judge event are decoded.
DecodeJudge ==
    /\ codec.fn = "judge"
    /\ CodecStep(JudgeEventRead(codec.in, 0))

NextCodec ==
    \/ RoundTripF16
    \/ DecodeRoomId
    \/ DecodeCommand
    \/ DecodeJudge

SpecCodec == InitCodec /\ [][NextCodec]_vars

\* The handshake: sessions are accepted, send a first command of any kind,
\* authenticate, fail and are reaped, while authenticated users make and
\* leave a room.
NextHandshake ==
    \/ \E sid \in SessionIds : Accept(sid)
    \/ \E sid \in SessionIds, u \in Clients : HandleAuthenticate(sid, u)
    \/ \E sid \in SessionIds : SessionPing(sid)
    \/ \E sid \in SessionIds, kind \in Kinds : ProtocolError(sid, kind)
    \/ \E sid \in SessionIds, act \in Activities : Fail(sid, act)
    \/ ReapTake
    \/ ReapDangle
    \/ \E u \in Clients : OneRoom /\ CreateRoom(u, "R1")
    \/ \E u \in Clients : JoinRoom(u, "R1", FALSE)
    \/ \E u \in Clients : LeaveRoom(u)

SpecHandshake == Init /\ [][NextHandshake]_vars

\* The session game with the reaper thread and the grace windows running
\* on: the reaper is not stopped for ever, and a window that runs ends.
FairSessions ==
    /\ SpecSessions
    /\ WF_vars(ReapTake)
    /\ WF_vars(ReapDangle)
    /\ \A u \in Clients : WF_vars(GraceElapsed(u)) /\ WF_vars(GraceStale(u))

\* ------------------------------------------------------------------ claims

\* What check_all_ready sent in the last handler.
CheckTail(c) == SubSeq(log, c.at + 1, c.end)

\* What the last handler sent before its check_all_ready.
CheckHead(c) == SubSeq(log, 1, c.at)

\* The members, then the monitors, of a room: the order of a broadcast.
Recipients(rm) == rm.users_ \o rm.monitors_

\* The Room object of the room game agrees with what check_all_ready left.
RoomIs(c) == \A s \in Slots : room[s].id = c.rm.id => room[s] = c.res

\* C1: when check_all_ready runs on a WaitForReady room whose members and
\* monitors are all in started, StartPlaying goes to every member and
\* monitor, the state becomes Playing with no results and no aborts, and
\* ChangeState(Playing) goes to every member and monitor, after StartPlaying
\* for each of them; when someone is not in started, the room is unchanged
\* and nothing is sent.
C1_StartWhenAllReady ==
    \A c \in chk :
        c.rm.state.type = "WaitForReady" =>
            LET rcpt == Recipients(c.rm)
                n == Len(rcpt)
                tail == CheckTail(c)
            IN IF \A i \in 1 .. n : rcpt[i] \in c.rm.state.started
               THEN /\ c.res.state = [type |-> "Playing", started |-> {},
                                      results |-> {}, aborted |-> {}]
                    /\ RoomIs(c)
                    /\ Len(tail) = 2 * n
                    /\ \A i \in 1 .. n :
                        /\ tail[i].to = rcpt[i]
                        /\ tail[i].cmd.type = "SMessage"
                        /\ tail[i].cmd.msg = "StartPlaying"
                        /\ tail[n + i].to = rcpt[i]
                        /\ tail[n + i].cmd.type = "ChangeState"
                        /\ tail[n + i].cmd.state = "Playing"
               ELSE /\ c.res = c.rm
                    /\ RoomIs(c)
                    /\ tail = <<>>

\* C1 witness: check_all_ready started a game for two members and a monitor.
C1_Witness ==
    \E c \in chk :
        /\ c.rm.state.type = "WaitForReady"
        /\ c.res.state.type = "Playing"
        /\ Len(c.rm.users_) >= 2
        /\ Len(c.rm.monitors_) >= 1

\* C2: when the completion check runs on a Playing room whose members all
\* have a result or an abort, GameEnd goes to every member and monitor, the
\* state becomes SelectChart, and ChangeState(SelectChart) goes to every
\* member and monitor last, after GameEnd for each of them; when a member
\* has neither, the room is unchanged and nothing is sent.
C2_EndWhenAllDone ==
    \A c \in chk :
        c.rm.state.type = "Playing" =>
            LET rcpt == Recipients(c.rm)
                n == Len(rcpt)
                tail == CheckTail(c)
                m == Len(tail)
            IN IF \A i \in 1 .. Len(c.rm.users_) :
                      c.rm.users_[i] \in c.rm.state.results \cup c.rm.state.aborted
               THEN /\ c.res.state = [type |-> "SelectChart", started |-> {},
                                      results |-> {}, aborted |-> {}]
                    /\ RoomIs(c)
                    /\ m >= 2 * n
                    /\ \A i \in 1 .. n :
                        /\ tail[i].to = rcpt[i]
                        /\ tail[i].cmd.type = "SMessage"
                        /\ tail[i].cmd.msg = "GameEnd"
                        /\ tail[m - n + i].to = rcpt[i]
                        /\ tail[m - n + i].cmd.type = "ChangeState"
                        /\ tail[m - n + i].cmd.state = "SelectChart"
                    /\ \A i \in (n + 1) .. (m - n) :
                        /\ tail[i].cmd.type # "ChangeState"
                        /\ tail[i].cmd.msg # "GameEnd"
               ELSE /\ c.res = c.rm
                    /\ RoomIs(c)
                    /\ tail = <<>>

\* C2 witness: the completion check ended a game of two members, one with
\* a result and one aborted, watched by a monitor.
C2_Witness ==
    \E c \in chk :
        /\ c.rm.state.type = "Playing"
        /\ c.res.state.type = "SelectChart"
        /\ Len(c.rm.users_) >= 2
        /\ Len(c.rm.monitors_) >= 1
        /\ c.rm.state.results # {}
        /\ c.rm.state.aborted # {}

\* The registered Room objects (the values of ServerState::rooms).
Registered == UNION {rooms[id] : id \in RoomIds}

C4_StartedAreCurrent ==
    \A s \in Slots :
        room[s].id # "" /\ room[s].state.type = "WaitForReady" =>
            room[s].state.started \subseteq
                Range(room[s].users_) \cup Range(room[s].monitors_)

\* C5: in Playing, the users with a result and the aborted users are
\* disjoint sets of current members.
C5_ResultsAreCurrent ==
    \A s \in Slots :
        room[s].id # "" /\ room[s].state.type = "Playing" =>
            /\ room[s].state.results \cap room[s].state.aborted = {}
            /\ room[s].state.results \cup room[s].state.aborted
                   \subseteq Range(room[s].users_)

\* Every reference a room holds locks: no member or monitor list holds a
\* user that is gone from the users map.
NoExpiredReference ==
    \A s \in Slots :
        \A w \in Range(room[s].users_) \cup Range(room[s].monitors_) : Alive(w)

C7_CapMembersOnly ==
    \A s \in Slots :
        LET rm == room[s] IN
        rm.id # "" =>
            \A u \in AllUsers :
                LET m == AddUser(rm, u, TRUE)
                    r == AddUser(rm, u, FALSE)
                IN /\ m.ok
                   /\ m.rm.monitors_ = Append(RoomMonitors(rm), u)
                   /\ m.rm.users_ = rm.users_
                   /\ r.ok <=> Len(RoomUsers(rm)) < ROOM_MAX_USERS
                   /\ r.ok => r.rm.monitors_ = rm.monitors_
                   /\ (users[u].online /\ users[u].room = {} /\ CanMonitor(u))
                          => ENABLED JoinRoom(u, rm.id, TRUE)
                   /\ (users[u].online /\ users[u].room = {} /\ ~rm.locked
                          /\ Len(RoomUsers(rm)) < ROOM_MAX_USERS)
                          => ENABLED JoinRoom(u, rm.id, FALSE)

\* A monitor joined a room that had ROOM_MAX_USERS members and a monitor.
C7_Witness ==
    /\ op.name = "JoinRoom"
    /\ users[op.user].monitor
    /\ \E s \in Slots :
           /\ Len(RoomUsers(room[s])) = ROOM_MAX_USERS
           /\ Len(RoomMonitors(room[s])) = 2
           /\ room[s].monitors_[2] = op.user

\* The places of a user in the lists of the rooms: slot, list, position.
Places(u) ==
    UNION {{<<s, "users", i>> :
               i \in {j \in DOMAIN room[s].users_ : room[s].users_[j] = u}}
           \cup {<<s, "monitors", i>> :
               i \in {j \in DOMAIN room[s].monitors_ :
                          room[s].monitors_[j] = u}} : s \in Slots}

\* C8: a user is in at most one list of at most one room, once, and that
\* room is the one the user is bound to, after any sequence of CreateRoom,
\* JoinRoom, LeaveRoom, lost connections, reconnections and dangle timeouts.
C8_MembershipExclusive ==
    \A u \in AllUsers :
        /\ Cardinality(Places(u)) <= 1
        /\ Cardinality(users[u].room) <= 1
        /\ \A p \in Places(u) : users[u].room = {p[1]}

\* A user came back to its room by a new session while another room is
\* registered, and some room has a monitor.
C8_Witness ==
    /\ op.name = "Authenticate"
    /\ users[op.user].room # {}
    /\ \A id \in RoomIds : rooms[id] # {}
    /\ \E s \in Slots : Len(room[s].monitors_) > 0

\* The ChangeHost commands of a log, and those that give the host role.
ChangeHosts(lg) == SelectSeq(lg, LAMBDA e : e.cmd.type = "ChangeHost")
ChangeHostsTrue(lg) == SelectSeq(ChangeHosts(lg), LAMBDA e : e.cmd.flag)

\* The members that remain when u leaves its room.
Remaining(u) == RoomUsers(LeaveErase(room[RoomOf(u)], u))

\* u is the host of its room and would leave members behind.
HostLeaves(u) ==
    /\ users[u].exists /\ users[u].room # {}
    /\ CheckHost(room[RoomOf(u)], u)
    /\ Remaining(u) # <<>>

\* The step is the leave of u, by LeaveRoom or by the dangle timeout.
LeaveStep(u) ==
    /\ op'.user = u
    /\ op'.name \in {"LeaveRoom", "DangleTimeout"}

\* Some draw of on_user_leave, u leaving, makes h the host.
CanElect(u, h) ==
    \E res \in OnUserLeave(room[RoomOf(u)], <<>>, u) :
        \E c \in res.chk : c.rm.host = {h}

\* C9 as stated, the count taken over the whole handler: the leave of a
\* host that leaves members behind sends exactly one ChangeHost{true}.
C9_OneChangeHostInHandler ==
    [][\A u \in Users :
          (HostLeaves(u) /\ LeaveStep(u)) => Len(ChangeHostsTrue(log')) = 1]_vars

\* C9, amended: when the host leaves or dangles and members remain, the
\* election of on_user_leave picks the new host among the remaining members
\* (never the leaver, and each of them can be picked), broadcasts NewHost to
\* the remaining members and the monitors, and sends one ChangeHost, with
\* is_host true, to the new host; this is all it sends about the host before
\* check_all_ready runs (which, ending the game of a cycle room, sends
\* ChangeHost again).
C9_HostElection ==
    [][\A u \in Users :
          (HostLeaves(u) /\ LeaveStep(u)) =>
              /\ \E c \in chk' : \E h \in Range(Remaining(u)) :
                     /\ h # u
                     /\ c.rm.host = {h}
                     /\ Range(c.rm.users_) = Range(Remaining(u))
                     /\ \A r \in Range(Recipients(c.rm)) :
                            Sent(r, SMessage("NewHost", h))
                                \in Range(SubSeq(log', 1, c.at))
                     /\ ChangeHosts(SubSeq(log', 1, c.at))
                            = <<Sent(h, ChangeHostCmd(TRUE))>>
                     /\ log'[c.at] = Sent(h, ChangeHostCmd(TRUE))
      ]_vars
    /\ [](\A u \in Users :
             HostLeaves(u) =>
                 \A h \in Range(Remaining(u)) : CanElect(u, h))

\* The host dangled out of a room of three members and one of the two
\* others, the second in the list, was elected and told so.
C9_Witness ==
    /\ op.name = "DangleTimeout"
    /\ \E c \in chk :
           /\ Len(c.rm.users_) = 2
           /\ c.rm.host = {c.rm.users_[2]}
           /\ c.at > 0
           /\ log[c.at] = Sent(c.rm.users_[2], ChangeHostCmd(TRUE))

\* The runs of check_all_ready of the last handler that ended a game.
GameEnds == {c \in chk : c.rm.state.type = "Playing" /\ AllDone(c.rm)}

\* The positions in a log of the commands of a type.
PositionsOf(lg, type) == {i \in 1 .. Len(lg) : lg[i].cmd.type = type}

\* C10: at a game end of a cycle room the host moves to the member at
\* position (index of the host + 1) modulo the member count (index from 0):
\* of three members the second hands over to the third and the third to the
\* first; ChangeHost{false} goes to the old host and ChangeHost{true} to the
\* new one, both before the ChangeState broadcast.  Without cycle the game
\* end leaves the host alone and sends no ChangeHost.  (A room that lost its
\* last member and lives on in the hands of a monitor has no member to hand
\* the host role to.)
C10_CycleHost ==
    \A c \in GameEnds :
        LET usr_list == RoomUsers(c.rm)
            n == Len(usr_list)
            tail == CheckTail(c)
        IN /\ c.res.state.type = "SelectChart"
           /\ \A r \in Range(Recipients(c.res)) :
                  \E b \in PositionsOf(tail, "ChangeState") : tail[b].to = r
           /\ ~c.rm.cycle =>
                  /\ c.res.host = c.rm.host
                  /\ PositionsOf(tail, "ChangeHost") = {}
           /\ (c.rm.cycle /\ n > 0) =>
                  \E i \in 0 .. (n - 1) :
                      LET old == usr_list[i + 1]
                          new == usr_list[((i + 1) % n) + 1]
                      IN /\ c.rm.host = {old}
                         /\ c.res.host = {new}
                         /\ (n = 3 /\ i = 1) => new = usr_list[3]
                         /\ (n = 3 /\ i = 2) => new = usr_list[1]
                         /\ ChangeHosts(tail) = <<Sent(old, ChangeHostCmd(FALSE)),
                                                  Sent(new, ChangeHostCmd(TRUE))>>
                         /\ \A a \in PositionsOf(tail, "ChangeHost"),
                               b \in PositionsOf(tail, "ChangeState") : a < b

\* A game of three members ended in a cycle room whose host was the last
\* member of the list: the first member is the host now.
C10_Witness ==
    \E c \in GameEnds :
        /\ c.rm.cycle
        /\ Len(RoomUsers(c.rm)) = 3
        /\ c.rm.host = {RoomUsers(c.rm)[3]}
        /\ c.res.host = {RoomUsers(c.rm)[1]}
        /\ op.name = "Played"

\* The users that hold a room: bound to it, whether listed or not.
Bound == {u \in AllUsers : users[u].exists /\ users[u].room # {}}

\* C11: on_user_leave reports that the room should be dropped exactly when
\* the member list is empty once the leaver is removed, whatever the number
\* of monitors, and never while a member remains.
C11_DropWhenNoMembers ==
    \A u \in Bound :
        \A res \in OnUserLeave(room[RoomOf(u)], <<>>, u) :
            res.drop <=> (Remaining(u) = <<>>)

\* What holds of on_user_leave: it reports the drop exactly when the leaver
\* is the host and no member remains, and so, for a room that still has a
\* member before the leave, exactly when the member list becomes empty.
DropWhenHostLeavesLast ==
    \A u \in Bound :
        LET rm == room[RoomOf(u)] IN
        \A res \in OnUserLeave(rm, <<>>, u) :
            /\ res.drop <=> (CheckHost(rm, u) /\ Remaining(u) = <<>>)
            /\ RoomUsers(rm) # <<>> => (res.drop <=> Remaining(u) = <<>>)

\* The step is the Authenticate of user u on session sid.
AuthStep(sid, u) ==
    /\ op'.name = "Authenticate" /\ op'.user = u
    /\ net'.last = sid
    /\ net.sessions[sid].user = 0 /\ net'.sessions[sid].user = u

\* C12: every user has at most one current session, a session of its own;
\* an Authenticate of an existing user on a new session swaps the binding
\* to the new session, leaves the previous session stopped when the handler
\* returns, and keeps the user's room and the rooms as they were.
C12_OneSessionPerUser ==
    /\ [](\A u \in Clients :
             /\ Cardinality(net.cur[u]) <= 1
             /\ \A i \in net.cur[u] : net.sessions[i].user = u)
    /\ [][\A sid \in SessionIds, u \in Clients :
             AuthStep(sid, u) =>
                 /\ net'.cur[u] = {sid}
                 /\ users'[u].exists /\ users'[u].online
                 /\ users[u].exists =>
                        /\ \A old \in net.cur[u] \ {sid} :
                               ~net'.sessions[old].alive
                        /\ users'[u].room = users[u].room
                        /\ users'[u].monitor = users[u].monitor
                        /\ room' = room /\ rooms' = rooms
       ]_vars

\* A user in a room authenticated on a second session while its first one
\* was alive: the first has been stopped, by nobody but the handler.
C12_Witness ==
    /\ op.name = "Authenticate"
    /\ users[op.user].room # {}
    /\ net.cur[op.user] = {net.last}
    /\ \E old \in SessionIds \ {net.last} :
           /\ net.sessions[old].user = op.user
           /\ net.sessions[old].st = "open"
           /\ net.sessions[old].pushed = {}
           /\ ~net.sessions[old].alive

\* The step is an iteration of the reaper on an id whose session is no
\* longer in the sessions map.
ReapAgainStep ==
    /\ op'.name = "ReapTake"
    /\ net.queue # <<>>
    /\ net.sessions[Head(net.queue)].st # "open"

\* C13: however the reader, the writer and the heartbeat of a session push
\* its id, the reaper erases the session from the sessions map once and
\* calls stop and dangle for it at most once; an id met again is dropped
\* from the queue and nothing else changes.
C13_ReapedOnce ==
    /\ [](\A sid \in SessionIds :
             LET ss == net.sessions[sid] IN
             /\ ss.reaps <= 1
             /\ ss.dangles <= ss.reaps
             /\ (ss.st = "gone") <=> (ss.reaps = 1)
             /\ ss.st = "gone" => ~ss.alive)
    /\ [][ReapAgainStep =>
             /\ net'.queue = Tail(net.queue)
             /\ net'.sessions = net.sessions
             /\ net'.reaper = ReaperIdle
             /\ net'.cur = net.cur /\ net'.timers = net.timers
             /\ users' = users /\ room' = room /\ rooms' = rooms
       ]_vars

\* The three activities of a session have pushed its id, the reaper has
\* taken the last of them, and the session was erased and dangled once.
C13_Witness ==
    /\ op.name = "ReapTake"
    /\ net.queue = <<>>
    /\ \E sid \in SessionIds :
           /\ net.last = sid
           /\ net.sessions[sid].pushed = Activities
           /\ net.sessions[sid].reaps = 1
           /\ net.sessions[sid].dangles = 1

\* C14: the reaper calls User::dangle for a lost session only if that
\* session is still the user's current session: a user bound again to a
\* newer session is not dangled by the reaping of the old one, and no grace
\* window runs against it.
C14_DangleOnlyCurrent ==
    [][op'.name = "ReapDangle" =>
          /\ net.cur[net.reaper.user] = {net.reaper.sid}
          /\ ~users[net.reaper.user].online
      ]_vars

\* What holds of the reaper: at its test, a session that is not the
\* current session of its user sends the reaper back to the queue without
\* a dangle, and the user keeps its room and its session.
ReapTestsCurrent ==
    [][op'.name = "ReapTake" =>
          LET id == Head(net.queue)
              u == net.sessions[id].user
          IN /\ net'.reaper.pc = "dangle" =>
                    (ReapFound(net, id) /\ u # 0 /\ net.cur[u] = {id})
             /\ (u # 0 /\ net.cur[u] # {id}) =>
                    /\ net'.reaper = ReaperIdle
                    /\ users' = users /\ net'.cur = net.cur
                    /\ net'.timers = net.timers /\ room' = room
      ]_vars

\* The rooms' lists that name user u.
ListedIn(rs, u) ==
    {s \in Slots : u \in Range(rs[s].users_) \cup Range(rs[s].monitors_)}

\* The grace window of u is running and its mark stands.
Dangling(u) == "valid" \in net.timers[u]

\* C15: when the grace window of a dangle ends and no session was bound in
\* the meantime, the user leaves its room by the leave protocol and is
\* erased from the users map, and this does happen once the user dangles;
\* a session bound within the window cancels it: the window then ends
\* without touching the user, its room or the users map.  A user leaves the
\* users map in no other way.
C15_GraceWindow ==
    /\ [][\A u \in Clients :
             /\ (op'.name = "DangleTimeout" /\ op'.user = u) =>
                    /\ Dangling(u)
                    /\ users'[u] = NoUser
                    /\ ListedIn(room', u) = {}
                    /\ users[u].room # {} =>
                           /\ log' # <<>>
                           /\ log'[1].cmd = SMessage("LeaveRoom", u)
             /\ (op'.name = "Authenticate" /\ op'.user = u) =>
                    ~Dangling(u)'
             /\ (op'.name = "GraceStale" /\ op'.user = u) =>
                    /\ users' = users /\ room' = room /\ rooms' = rooms
                    /\ Dangling(u)' = Dangling(u)
             /\ (users[u].exists /\ ~users'[u].exists) =>
                    (op'.name = "DangleTimeout" /\ op'.user = u)
       ]_vars
    /\ \A u \in Clients :
           Dangling(u) ~> (~users[u].exists \/ users[u].online)

\* The grace window of a user in a room ended with no session bound again:
\* the user has left the room, leaving a member behind, and the map.
C15_Witness ==
    /\ op.name = "DangleTimeout"
    /\ ~users[op.user].exists
    /\ log # <<>>
    /\ log[1].cmd = SMessage("LeaveRoom", op.user)
    /\ \E s \in Slots : Len(room[s].users_) = 1

\* The id of session sid waits in the lost-connection queue.
InQueue(sid) == sid \in Range(net.queue)

\* Session sid is out of the sessions map and stopped.
Reaped(sid) == net.sessions[sid].st = "gone" /\ ~net.sessions[sid].alive

\* C16: with the reaper running, every id pushed to the lost-connection
\* queue is taken from it in the end, and the session is then out of the
\* sessions map and stopped: the reaper step that takes the id leaves it
\* so, also for a session killed by its reader before any Authenticate.
C16_EventuallyReaped ==
    /\ \A sid \in SessionIds :
           /\ InQueue(sid) ~> (Reaped(sid) /\ ~InQueue(sid))
           /\ [](InQueue(sid) => net.sessions[sid].st # "new")
    /\ [][op'.name = "ReapTake" =>
             LET id == Head(net.queue) IN
             /\ net'.last = id
             /\ net'.queue = Tail(net.queue)
             /\ net'.sessions[id].st = "gone"
             /\ ~net'.sessions[id].alive
       ]_vars

\* A session killed by its reader before any Authenticate has been taken
\* from the queue by the reaper: it is out of the map and stopped.
C16_Witness ==
    /\ op.name = "ReapTake"
    /\ \E sid \in SessionIds :
           /\ net.last = sid
           /\ net.sessions[sid].pushed = {"reader"}
           /\ net.sessions[sid].user = 0
           /\ Reaped(sid)
           /\ ~InQueue(sid)

\* The commands that are acknowledged, and the type of the reply of each.
AckedCommands ==
    {"CreateRoom", "JoinRoom", "LeaveRoom", "LockRoom", "CycleRoom",
     "SelectChart", "RequestStart", "Ready", "CancelReady", "Played", "Abort"}

AckType(name) == IF name = "JoinRoom" THEN "SJoinRoom" ELSE name

\* The positions of the log where the sender of the last command is sent
\* its reply, and those where it is sent a broadcast of the room.
AckPositions ==
    {i \in 1 .. Len(log) :
        log[i].to = op.user /\ log[i].cmd.type = AckType(op.name)}

BroadcastPositions ==
    {i \in 1 .. Len(log) :
        /\ log[i].to = op.user
        /\ log[i].cmd.type \in {"SMessage", "ChangeState", "OnJoinRoom"}}

\* C18: the sender of a successful command is sent the reply of the
\* command before every broadcast the command produced.
C18_AckBeforeBroadcast ==
    op.name \in AckedCommands =>
        /\ AckPositions # {}
        /\ \A i \in AckPositions, j \in BroadcastPositions : i < j

\* Telemetry: the entries of the log for one recipient.
SentTo(u) == {i \in 1 .. Len(log) : log[i].to = u}

TelemetryCmd ==
    IF op.name = "Touches" THEN TouchesCmd(op.user) ELSE JudgesCmd(op.user)

\* C17: Touches and Judges of a player reach every current monitor of the
\* room exactly once, tagged with the id of the player, and reach no member;
\* the sender is sent no acknowledgement.
C17_TelemetryToMonitorsOnly ==
    op.name \in {"Touches", "Judges"} =>
        LET rm == room[RoomOf(op.user)]
        IN /\ \A i \in 1 .. Len(log) : log[i].cmd = TelemetryCmd
           /\ \A u \in Range(rm.monitors_) : Cardinality(SentTo(u)) = 1
           /\ \A u \in AllUsers \ Range(rm.monitors_) : SentTo(u) = {}

\* Members 1 and 2, monitor 3: Touches of 1 is sent to 3 once, and to
\* nobody else.
C17_Witness ==
    /\ op = [name |-> "Touches", user |-> 1]
    /\ room[1].users_ = <<1, 2>>
    /\ room[1].monitors_ = <<3>>
    /\ log = <<Sent(3, TouchesCmd(1))>>

\* A refusal: the room, the registry and the users as they were, one error
\* reply of the command to the sender, and no completion check.
Refused(u, type) ==
    /\ room' = room
    /\ rooms' = rooms
    /\ users' = users
    /\ chk' = {}
    /\ Len(log') = 1
    /\ log'[1].to = u
    /\ log'[1].cmd.type = type
    /\ ~log'[1].cmd.ok

\* C19: Ready sent while the room is not in WaitForReady, or by a user who
\* is already in started, is refused: the sender is sent an error reply,
\* the room with its started set is unchanged and nothing is broadcast.
C19_ReadyRefused ==
    [][\A u \in Users :
          (/\ InRoom(u)
           /\ \/ room[RoomOf(u)].state.type # "WaitForReady"
              \/ u \in room[RoomOf(u)].state.started
           /\ Ready(u) \/ ReadyFail(u))
          => Refused(u, "Ready")]_vars

\* Ready by a user who is in started already, refused.
C19_Witness ==
    /\ op.name = "ReadyFail"
    /\ room[1].state.type = "WaitForReady"
    /\ op.user \in room[1].state.started
    /\ log = <<Sent(op.user, SimpleErr("Ready", "bad-state"))>>

\* C20: Played and Abort sent while the room is not in Playing are refused,
\* and so is Played by a user who has a result or for a chart that is not
\* the chart of the room: the sender is sent an error reply, results and
\* aborted are unchanged, nothing is broadcast and the game does not end.
C20_PlayedAbortRefused ==
    [][\A u \in Users :
          /\ \A c \in GameCharts :
                (/\ InRoom(u)
                 /\ \/ room[RoomOf(u)].state.type # "Playing"
                    \/ u \in room[RoomOf(u)].state.results
                    \/ room[RoomOf(u)].chart # {c}
                 /\ Played(u, c) \/ PlayedFail(u, c))
                => Refused(u, "Played")
          /\ (/\ InRoom(u)
              /\ room[RoomOf(u)].state.type # "Playing"
              /\ Abort(u) \/ AbortFail(u))
             => Refused(u, "Abort")]_vars

\* Played for a chart that is not the chart of the room, during Playing,
\* refused.
C20_Witness ==
    /\ op.name = "PlayedFail"
    /\ room[1].state.type = "Playing"
    /\ op.user \notin room[1].state.results
    /\ log = <<Sent(op.user, SimpleErr("Played", "bad-chart"))>>

\* C21: LockRoom, CycleRoom, SelectChart and RequestStart of a user who is
\* not the host of its room are refused: the sender is sent an error reply,
\* the room (locked, cycle, chart and state) is as it was, and nothing is
\* broadcast.
C21_HostOnly ==
    [][\A u \in Users :
          (InRoom(u) /\ room[RoomOf(u)].host # {u}) =>
              /\ \A flag \in BOOLEAN :
                    /\ (LockRoom(u, flag) \/ LockRoomFail(u, flag))
                           => Refused(u, "LockRoom")
                    /\ (CycleRoom(u, flag) \/ CycleRoomFail(u, flag))
                           => Refused(u, "CycleRoom")
              /\ \A c \in GameCharts :
                    (SelectChart(u, c) \/ SelectChartFail(u, c))
                        => Refused(u, "SelectChart")
              /\ (RequestStart(u) \/ RequestStartFail(u))
                    => Refused(u, "RequestStart")]_vars

\* Member 2 of a room whose host is 1 sent LockRoom and was refused.
C21_Witness ==
    /\ op = [name |-> "LockRoomFail", user |-> 2]
    /\ room[1].host = {1}
    /\ room[1].users_ = <<1, 2>>
    /\ log = <<Sent(2, SimpleErr("LockRoom", "not-host"))>>

\* C23: a SelectChart whose chart lookup fails and a Played whose record
\* lookup fails leave the room (chart, state, results, aborted) as it was,
\* send the error reply to the sender and nothing to anybody else, and
\* leave the user and its session as they were.
C23_LookupFailureKeepsRoom ==
    [][\A u \in Users, c \in GameCharts :
          /\ SelectChartLookupFail(u, c)
                => Refused(u, "SelectChart") /\ net' = net
          /\ PlayedLookupFail(u, c)
                => Refused(u, "Played") /\ net' = net]_vars

\* The record lookup failed for the Played of a member during Playing: the
\* member has no result.
C23_Witness ==
    /\ op.name = "PlayedLookupFail"
    /\ room[1].state.type = "Playing"
    /\ op.user \notin room[1].state.results
    /\ users[op.user].online
    /\ log = <<Sent(op.user, SimpleErr("Played", "lookup-failed"))>>

\* C30: a game end keeps the chart of the room, and each ChangeState sent
\* in the game end is ChangeState(SelectChart) carrying the id of that
\* chart.
C30_ChartRetained ==
    \A c \in GameEnds :
        /\ c.rm.chart # {}
        /\ c.res.chart = c.rm.chart
        /\ PositionsOf(CheckTail(c), "ChangeState") # {}
              \/ Recipients(c.res) = <<>>
        /\ \A i \in PositionsOf(CheckTail(c), "ChangeState") :
              /\ CheckTail(c)[i].cmd.state = "SelectChart"
              /\ CheckTail(c)[i].cmd.chart = c.rm.chart

\* A game on chart 42 ended: ChangeState(SelectChart, 42) was sent.
C30_Witness ==
    \E c \in GameEnds :
        /\ c.rm.chart = {42}
        /\ room[1].chart = {42}
        /\ room[1].state.type = "SelectChart"
        /\ \E i \in PositionsOf(CheckTail(c), "ChangeState") :
              CheckTail(c)[i].cmd.chart = {42}

\* C22: a command other than Authenticate sent on a session that is not
\* authenticated is a protocol error: no user, no room and no registry
\* entry changes, no reply is sent, and the session is dead with its id in
\* the lost-connection queue.  A command of a room is handled only for a
\* user an authenticated session is bound to.
C22_AuthenticateFirst ==
    [][/\ \A sid \in SessionIds, kind \in Kinds \ {"Authenticate"} :
            (/\ net.sessions[sid].user = 0
             /\ SessionPing(sid) \/ ProtocolError(sid, kind))
            => /\ users' = users
               /\ room' = room
               /\ rooms' = rooms
               /\ log' = <<>>
               /\ chk' = {}
               /\ ~net'.sessions[sid].alive
               /\ net'.queue = Append(net.queue, sid)
               /\ net'.cur = net.cur
       /\ op'.name \in {"CreateRoom", "JoinRoom", "LeaveRoom"}
            => \E sid \in SessionIds : net.sessions[sid].user = op'.user]_vars

\* A session that was accepted and never authenticated sent a command, was
\* stopped, and its id is queued for the reaper, while a room exists.
C22_Witness ==
    /\ op = [name |-> "ProtocolError", user |-> 0]
    /\ net.sessions[net.last].user = 0
    /\ ~net.sessions[net.last].alive
    /\ net.last \in Range(net.queue)
    /\ log = <<>>
    /\ \E s \in Slots : room[s].users_ # <<>>

\* C24: the commands the writer has popped, followed by the commands still
\* in the queue, are the commands pushed while the queue was open, in the
\* order of their pushes: none lost, none twice, whatever the interleaving
\* of the producers and the writer.
C24_FifoDelivery == sq.popped \o sq.q.queue_ = sq.offered

\* Two producers pushed in turn and the writer delivered the commands of
\* both while more were waiting.
C24_Witness ==
    /\ Len(sq.popped) >= 2
    /\ sq.popped[1][1] # sq.popped[2][1]
    /\ sq.q.queue_ # <<>>
    /\ ~sq.q.closed_

\* C25: once the queue is closed it stays closed and its content never
\* grows, a further close changes nothing of the queue, and the writer
\* exits only when the queue is closed and empty, which it comes to be.
C25_CloseIdempotent ==
    /\ [][sq.q.closed_ =>
            /\ sq'.q.closed_
            /\ Len(sq'.q.queue_) <= Len(sq.q.queue_)
            /\ \A who \in Stoppers : StopBy(who) => sq'.q = sq.q]_vars
    /\ [](sq.writer = "exited" => sq.q.closed_ /\ sq.q.queue_ = <<>>)
    /\ (sq.q.closed_ ~> (sq.writer = "exited"))

\* The queue was closed twice with a command waiting, a push came after
\* the close, and the writer has drained the queue and exited.
C25_Witness ==
    /\ Cardinality(sq.stopped) >= 2
    /\ sq.writer = "exited"
    /\ Len(sq.popped) >= 1
    /\ Len(sq.offered) < sq.sent[1] + sq.sent[2]

\* C26: a stop leaves the send queue closed, the read half shut down and
\* alive false; a stop of a session that was stopped before changes
\* nothing of it; and alive never becomes true again.
C26_StopIdempotent ==
    [][/\ \A who \in Stoppers :
            StopBy(who) =>
                /\ sq'.q.closed_ /\ sq'.rd = "shut" /\ ~sq'.alive
                /\ sq.stopped # {} =>
                       /\ sq'.q = sq.q
                       /\ sq'.rd = sq.rd
                       /\ sq'.alive = sq.alive
                       /\ sq'.writer = sq.writer
       /\ ~sq.alive => ~sq'.alive
       /\ sq.stopped # {} => sq'.q.closed_ /\ sq'.rd = "shut"]_vars

\* The reaper, a rebind and an admin kick have all stopped the session.
C26_Witness ==
    /\ sq.stopped = Stoppers
    /\ ~sq.alive
    /\ sq.q.closed_
    /\ sq.rd = "shut"

\* The characters of a RoomId: 0-9, A-Z, a-z, '-' and '_'.
IdChars == (48 .. 57) \cup (65 .. 90) \cup (97 .. 122) \cup {45, 95}

\* C27: the decoding of a RoomId field holding the string s succeeds, and
\* gives s, exactly when s has from 1 to 20 characters, each of them a
\* letter, a digit, '-' or '_'; otherwise it fails.
C27_RoomIdDecode ==
    (codec.fn = "roomid" /\ codec.done) =>
        /\ codec.out.ok <=>
               /\ 1 <= Len(codec.in) /\ Len(codec.in) <= 20
               /\ \A i \in 1 .. Len(codec.in) : codec.in[i] \in IdChars
        /\ codec.out.ok => codec.out.v = codec.in

\* A RoomId of twenty characters with a '-' among them was decoded.
C27_Witness ==
    /\ codec.fn = "roomid"
    /\ codec.done
    /\ codec.out.ok
    /\ Len(codec.in) = 20
    /\ \E i \in 1 .. 20 : codec.in[i] = 45

\* C28: the decoding of a client frame whose kind byte is none of the
\* sixteen kinds 0..15 fails, and so does the decoding of a judge event, on
\* its own or in a Judges frame, whose judgement byte is none of 0..5.
C28_InvalidDiscriminantFails ==
    codec.done =>
        /\ (codec.fn = "command" /\ codec.in[1] \notin 0 .. 15) => ~codec.out.ok
        /\ (codec.fn = "judge" /\ codec.in[13] \notin 0 .. 5) => ~codec.out.ok
        /\ (/\ codec.fn = "command"
            /\ codec.in[1] = 4
            /\ Len(codec.in) = 15
            /\ codec.in[15] \notin 0 .. 5) => ~codec.out.ok

\* The half-floats with exponent 0 and a mantissa that is not 0.
Subnormal(h) == (h \div 1024) % 32 = 0 /\ h % 1024 # 0

\* C29: every 16-bit pattern widened by f16_to_f32 and narrowed by
\* f32_to_f16 is the pattern again.
C29_F16RoundTrip ==
    (codec.fn = "f16" /\ codec.done) => codec.out.v = codec.in[1]

\* The round trip gives the pattern again for the normals, the zeros, the
\* infinities and the NaNs, and gives the zero of the same sign for a
\* subnormal.
RoundTripButSubnormals ==
    (codec.fn = "f16" /\ codec.done) =>
        codec.out.v = IF Subnormal(codec.in[1])
                      THEN (codec.in[1] \div 32768) * 32768
                      ELSE codec.in[1]


\* ------------------------------------------------------- administration
\* Server::disband_room (and disband_room_cli): the members and monitors
\* are sent a chat message from the system user and the room is erased from
\* the rooms map.  Nothing is stored on the users.
DisbandRoom(id) ==
    /\ rooms[id] # {}
    /\ LET s == CHOOSE x \in rooms[id] : TRUE
       IN Commit("DisbandRoom", 0, room, users, [rooms EXCEPT ![id] = {}],
                 Broadcast(room[s], <<>>, SMessage("Chat", 0)), {})

\* The room commands of the sessions and the disband of the administrator,
\* in any order.
NextAdmin ==
    \/ NextRooms
    \/ \E id \in RoomIds : DisbandRoom(id)

SpecAdmin == Init /\ [][NextAdmin]_vars

\* -------------------------------------------------------------- threads
\* The threads of the server followed one lock operation at a time.  thr
\* holds, for each thread, what is left of the operation it runs (todo) and
\* the locks it holds in the order it took them (held); pref is the policy
\* of the shared mutexes, which the standard leaves open: readers are let
\* in while a writer waits, or they are not.

\* The server with no user, room or session.
Quiet ==
    /\ config = DefaultConfig
    /\ users = [u \in AllUsers |-> NoUser]
    /\ rooms = [id \in RoomIds |-> {}]
    /\ room = [s \in Slots |-> NullRoom]
    /\ log = <<>>
    /\ chk = {}
    /\ op = [name |-> "Init", user |-> 0]
    /\ net = NoNet
    /\ sq = NoQueue

ThreadStep(nthr) ==
    /\ thr' = nthr
    /\ UNCHANGED <<config, users, rooms, room, log, chk, op, net, sq, codec>>

IdleThread == [todo |-> <<>>, held |-> <<>>]

InitThreads ==
    /\ Quiet
    /\ codec = NoCodec
    /\ \E pref \in BOOLEAN :
           thr = [pref |-> pref, th |-> [t \in Threads |-> IdleThread]]

\* std::unique_lock / std::lock_guard ("X") and std::shared_lock ("S") on
\* the mutex l, and the end of the guard's scope or an unlock().
Lock(l, m) == [a |-> "lock", l |-> l, m |-> m]
Unlock(l) == [a |-> "unlock", l |-> l, m |-> ""]
Scoped(l, m, inside) == <<Lock(l, m)>> \o inside \o <<Unlock(l)>>

\* A thread asks for a mutex: its next step is the lock call.
Asks(t, l, m) ==
    /\ thr.th[t].todo # <<>>
    /\ Head(thr.th[t].todo) = Lock(l, m)

Holds(t, l, m) == \E i \in 1 .. Len(thr.th[t].held) : thr.th[t].held[i] = Lock(l, m)

\* The lock call returns: no thread, the caller included, holds the mutex
\* in a mode that excludes the one asked for; under the writers-first
\* policy a reader also waits while another thread asks for the mutex as
\* writer.
CanLock(t, l, m) ==
    /\ \A o \in Threads : ~Holds(o, l, "X")
    /\ m = "X" => \A o \in Threads : ~Holds(o, l, "S")
    /\ (m = "S" /\ thr.pref) => \A o \in Threads \ {t} : ~Asks(o, l, "X")

\* A thread begins one of the operations: one of its paths is chosen.
Begin(t, paths) ==
    /\ thr.th[t].todo = <<>>
    /\ \E p \in paths : ThreadStep([thr EXCEPT !.th[t].todo = p])

LockStep(t) ==
    /\ thr.th[t].todo # <<>>
    /\ LET s == Head(thr.th[t].todo) IN
       /\ s.a = "lock"
       /\ CanLock(t, s.l, s.m)
       /\ ThreadStep([thr EXCEPT !.th[t].todo = Tail(@),
                                 !.th[t].held = Append(@, s)])

UnlockStep(t) ==
    /\ thr.th[t].todo # <<>>
    /\ LET s == Head(thr.th[t].todo) IN
       /\ s.a = "unlock"
       /\ ThreadStep([thr EXCEPT !.th[t].todo = Tail(@),
                                 !.th[t].held = SelectSeq(@, LAMBDA h : h.l # s.l)])

\* ----------------------------------------------------------- room locks

\* The order the specification gives the five mutexes of a Room.
RoomLockOrder == <<"host", "state", "users", "monitors", "chart">>

\* Room::users, Room::monitors, Room::check_host.
UsersLocks == Scoped("users", "S", <<>>)
MonitorsLocks == Scoped("monitors", "S", <<>>)
CheckHostLocks == Scoped("host", "S", <<>>)

\* Room::broadcast (and send): users(), then monitors().
BroadcastLocks == UsersLocks \o MonitorsLocks

\* client_room_state with the two locks taken the other way round.
ClientRoomStateLocksChartFirst ==
    Scoped("chart", "S", Scoped("state", "S", <<>>))

\* Room::client_room_state: state_mtx shared, then chart_mtx shared.
ClientRoomStateLocks == Scoped("state", "S", Scoped("chart", "S", <<>>))

\* Room::on_state_change: broadcast(change_state(client_room_state())).
OnStateChangeLocks == ClientRoomStateLocks \o BroadcastLocks

\* Room::client_state.
ClientStateLocks ==
    ClientRoomStateLocks \o CheckHostLocks \o Scoped("state", "S", <<>>)
        \o UsersLocks \o MonitorsLocks

\* Room::add_user: as monitor, as member.
AddUserLocks == {Scoped("monitors", "X", <<>>), Scoped("users", "X", <<>>)}

\* The host cycle of a game end: with no member left, with a new host.
CycleLocks ==
    {CheckHostLocks \o UsersLocks,
     CheckHostLocks \o UsersLocks \o Scoped("host", "X", <<>>) \o BroadcastLocks}

\* check_all_ready without the unlock() before the sends: the first lock is
\* held to the end of the function.
CheckAllReadyLocksNoUnlock ==
    {Scoped("state", "X", <<>>),
     Scoped("state", "X", UsersLocks \o MonitorsLocks),
     Scoped("state", "X", UsersLocks \o MonitorsLocks \o BroadcastLocks
                              \o UsersLocks \o OnStateChangeLocks),
     Scoped("state", "X", UsersLocks),
     Scoped("state", "X", UsersLocks \o BroadcastLocks \o OnStateChangeLocks)}

\* Room::check_all_ready, by the branch taken: SelectChart; WaitForReady,
\* not all ready and all ready; Playing, not all done, all done, and all
\* done in a cycle room.
CheckAllReadyLocks ==
    {Scoped("state", "X", <<>>),
     Scoped("state", "X", UsersLocks \o MonitorsLocks),
     Scoped("state", "X", UsersLocks \o MonitorsLocks) \o BroadcastLocks
         \o UsersLocks \o Scoped("state", "X", <<>>) \o OnStateChangeLocks,
     Scoped("state", "X", UsersLocks),
     Scoped("state", "X", UsersLocks) \o BroadcastLocks
         \o Scoped("state", "X", <<>>) \o OnStateChangeLocks}
    \cup {Scoped("state", "X", UsersLocks) \o BroadcastLocks
              \o Scoped("state", "X", <<>>) \o c \o OnStateChangeLocks :
          c \in CycleLocks}

\* Room::on_user_leave: the LeaveRoom broadcast, the erase from the
\* leaver's list, check_host, then the drop, or the election and
\* check_all_ready, or check_all_ready alone.
OnUserLeaveLocks ==
    LET erase == {Scoped("monitors", "X", <<>>), Scoped("users", "X", <<>>)}
        tail == {UsersLocks}
                  \cup {UsersLocks \o Scoped("host", "X", <<>>)
                            \o BroadcastLocks \o c : c \in CheckAllReadyLocks}
                  \cup CheckAllReadyLocks
    IN {BroadcastLocks \o e \o CheckHostLocks \o r : e \in erase, r \in tail}

\* The operations of a Room that take its locks.
RoomPaths ==
    {ClientRoomStateLocks, ClientStateLocks, BroadcastLocks}
        \cup AddUserLocks \cup OnUserLeaveLocks \cup CheckAllReadyLocks

\* The operations of one Room called from the session threads, in any
\* interleaving.
NextLocks ==
    \/ \E t \in Threads : Begin(t, RoomPaths)
    \/ \E t \in Threads : LockStep(t)
    \/ \E t \in Threads : UnlockStep(t)

SpecLocks == InitThreads /\ [][NextLocks]_vars

\* -------------------------------------------------------- command filter
\* PluginManager::filter_command over the loaded plugins.  What the Lua
\* function on_before_command of a plugin does with a command is an input:
\* it returns true ("allow"), false ("veto"), a table ("table"), anything
\* else ("other"), raises an error ("error"), or the plugin defines no such
\* function ("nofunction").  A plugin answers by the kind of the command it
\* is shown, so it is given as its answer to the client's kind (on) and its
\* answer to a Ping (onPing).
Verdicts == {"allow", "veto", "table", "other", "error", "nofunction"}

FilterKinds == {"Ping", "Chat", "Ready"}

Plugins == [on : Verdicts, onPing : Verdicts]

PluginLists == UNION {[1 .. n -> Plugins] : n \in 0 .. NumPlugins}

\* A decoded ClientCommand of a kind, and ClientCommand temp: its type has
\* no initialiser.
ClientCommand(kind) == [type |-> kind, monitor |-> FALSE, flag |-> FALSE]
TempCommand == [type |-> "indeterminate", monitor |-> FALSE, flag |-> FALSE]

\* The answer of a plugin's Lua function to a command.
VerdictOn(plugin, cmd) == IF cmd.type = "Ping" THEN plugin.onPing ELSE plugin.on

\* LuaPlugin::on_before_command: the return value and *out_cmd.
OnBeforeCommand(plugin, cmd, out_cmd) ==
    IF VerdictOn(plugin, cmd) = "veto"
    THEN [modified |-> TRUE,
          out |-> [out_cmd EXCEPT !.type = "Ping", !.monitor = TRUE]]
    ELSE [modified |-> FALSE, out |-> out_cmd]

\* The loop of filter_command with current replaced by temp after every
\* plugin, whatever the plugin returned.
RECURSIVE FilterLoopAlwaysTakes(_, _, _, _)
FilterLoopAlwaysTakes(plugins, i, current, modified) ==
    IF i > Len(plugins) THEN [modified |-> modified, current |-> current]
    ELSE LET r == OnBeforeCommand(plugins[i], current, TempCommand)
         IN FilterLoopAlwaysTakes(plugins, i + 1, r.out, modified \/ r.modified)

\* The loop of filter_command from plugin i on.
RECURSIVE FilterLoop(_, _, _, _)
FilterLoop(plugins, i, current, modified) ==
    IF i > Len(plugins) THEN [modified |-> modified, current |-> current]
    ELSE LET r == OnBeforeCommand(plugins[i], current, TempCommand)
         IN IF r.modified
            THEN FilterLoop(plugins, i + 1, r.out, TRUE)
            ELSE FilterLoop(plugins, i + 1, current, modified)

\* PluginManager::filter_command: the return value and *out_cmd.
FilterCommand(plugins, cmd, out_cmd) ==
    LET r == FilterLoop(plugins, 1, cmd, FALSE)
    IN [modified |-> r.modified,
        out |-> IF r.modified THEN r.current ELSE out_cmd]

\* The reader's dispatch after the filter: the filtered command when the
\* filter reports a change, the client's command when it does not.
Dispatched(cmd, f) == IF f.modified THEN f.out ELSE cmd

InitFilter ==
    /\ Quiet
    /\ thr = NoThreads
    /\ \E k \in FilterKinds, ps \in PluginLists :
           codec = [fn |-> "filter", in |-> [cmd |-> ClientCommand(k), plugins |-> ps],
                    done |-> FALSE, out |-> <<>>]

\* The reader passes a command through the filter and dispatches.
Filter ==
    /\ codec.fn = "filter"
    /\ LET f == FilterCommand(codec.in.plugins, codec.in.cmd, TempCommand)
       IN CodecStep([modified |-> f.modified, out |-> f.out,
                     dispatched |-> Dispatched(codec.in.cmd, f)])

NextFilter == Filter

SpecFilter == InitFilter /\ [][NextFilter]_vars

\* ------------------------------------------------------------ ban locks
\* The ban operations of Server over ban_mtx and admin_state_mtx, both
\* std::mutex, and sessions_mtx.

\* Server::save_admin_data: ban_mtx, then admin_state_mtx, to the end.
SaveAdminDataLocks == Scoped("ban", "X", Scoped("admin", "X", <<>>))

\* Server::admin_disconnect_user: sessions_mtx shared.
AdminDisconnectLocks == Scoped("sessions", "S", <<>>)

\* Server::is_user_banned.
IsUserBannedLocks == Scoped("ban", "X", <<>>)

\* Server::ban_user: the insert under ban_mtx, save_admin_data after the
\* lock is released, the lookup of the user for the plugins, the
\* disconnect.
BanUserLocks ==
    Scoped("ban", "X", <<>>) \o SaveAdminDataLocks
        \o Scoped("sessions", "S", <<>>) \o AdminDisconnectLocks

\* Server::unban_user, ban_room_user, unban_room_user: ban_mtx is held to
\* the end; save_admin_data is called under it (by the two unbans only when
\* something was removed).
LockedBanPaths ==
    {Scoped("ban", "X", <<>>), Scoped("ban", "X", SaveAdminDataLocks)}

BanPaths ==
    {SaveAdminDataLocks, IsUserBannedLocks, BanUserLocks} \cup LockedBanPaths

\* A lock call on a std::mutex the calling thread owns is undefined: the
\* call never returns (LockStep stays disabled), or it throws
\* std::system_error and the guards of the operation unlock on the way out;
\* the operation has not returned its result.
SystemError == [a |-> "thrown", l |-> "", m |-> ""]

RelockThrows(t) ==
    /\ thr.th[t].todo # <<>>
    /\ LET s == Head(thr.th[t].todo) IN
       /\ s.a = "lock"
       /\ s.m = "X"
       /\ Holds(t, s.l, "X")
       /\ ThreadStep([thr EXCEPT !.th[t].todo = <<SystemError>>, !.th[t].held = <<>>])

\* The ban operations called from the console thread, the plugins and the
\* session threads, in any interleaving.
NextBans ==
    \/ \E t \in Threads : Begin(t, BanPaths)
    \/ \E t \in Threads : LockStep(t)
    \/ \E t \in Threads : UnlockStep(t)
    \/ \E t \in Threads : RelockThrows(t)

SpecBans == InitThreads /\ [][NextBans]_vars

\* A thread that can take or release a mutex does so: a lock call returns
\* when the mutex is free again and again.
FairBans ==
    /\ SpecBans
    /\ \A t \in Threads : SF_vars(LockStep(t)) /\ WF_vars(UnlockStep(t))

\* -------------------------------------------------------------- accept
\* Server::run and Server::accept_one: the one accept thread and the
\* clients that connect.  thr.backlog is the listen queue of the socket,
\* thr.acc the place of the accept thread and the connection it handles,
\* thr.conn what each client has done (st: "none", "backlog", "accepted",
\* "session", "closed"; sent: its version byte is on the wire; eof: it has
\* closed its end) and thr.banned the clients whose address is in
\* admin_banned_ips or otp_banned_ips.
NoConn == [st |-> "none", sent |-> FALSE, eof |-> FALSE]

InitAccept ==
    /\ Quiet
    /\ codec = NoCodec
    /\ \E banned \in SUBSET Clients :
           thr = [acc |-> [pc |-> "accept", c |-> 0],
                  backlog |-> <<>>,
                  conn |-> [c \in Clients |-> NoConn],
                  banned |-> banned]

\* A client connects: the connection waits in the listen queue.
Connect(c) ==
    /\ thr.conn[c].st = "none"
    /\ ThreadStep([thr EXCEPT !.conn[c].st = "backlog",
                              !.backlog = Append(@, c)])

\* A client sends its version byte.
SendVersion(c) ==
    /\ thr.conn[c].st \in {"backlog", "accepted"}
    /\ ~thr.conn[c].sent /\ ~thr.conn[c].eof
    /\ ThreadStep([thr EXCEPT !.conn[c].sent = TRUE])

\* A client closes its end without having sent the byte.
Hangup(c) ==
    /\ thr.conn[c].st \in {"backlog", "accepted"}
    /\ ~thr.conn[c].sent /\ ~thr.conn[c].eof
    /\ ThreadStep([thr EXCEPT !.conn[c].eof = TRUE])

\* accept_one: accept() returns the first connection of the queue.
AcceptConn ==
    /\ thr.acc.pc = "accept"
    /\ thr.backlog # <<>>
    /\ LET c == Head(thr.backlog)
       IN ThreadStep([thr EXCEPT !.acc = [pc |-> "recv", c |-> c],
                                 !.backlog = Tail(@),
                                 !.conn[c].st = "accepted"])

\* accept_one: recv(client_fd, &version, 1, 0) returns, with the byte or
\* with 0; without the byte the socket is closed and accept_one returns.
RecvVersion ==
    /\ thr.acc.pc = "recv"
    /\ LET c == thr.acc.c IN
       /\ thr.conn[c].sent \/ thr.conn[c].eof
       /\ IF thr.conn[c].sent
          THEN ThreadStep([thr EXCEPT !.acc.pc = "check"])
          ELSE ThreadStep([thr EXCEPT !.acc = [pc |-> "accept", c |-> 0],
                                      !.conn[c].st = "closed"])

\* accept_one: the blacklists, then the Session, stored in sessions, and
\* its three threads.
CheckAndRegister ==
    /\ thr.acc.pc = "check"
    /\ LET c == thr.acc.c
       IN ThreadStep([thr EXCEPT !.acc = [pc |-> "accept", c |-> 0],
                                 !.conn[c].st = IF c \in thr.banned
                                                THEN "closed" ELSE "session"])

NextAccept ==
    \/ \E c \in Clients : Connect(c)
    \/ \E c \in Clients : SendVersion(c)
    \/ \E c \in Clients : Hangup(c)
    \/ AcceptConn
    \/ RecvVersion
    \/ CheckAndRegister

SpecAccept == InitAccept /\ [][NextAccept]_vars

\* The accept thread runs: a call that can return does.  Nothing makes a
\* client send.
FairAccept ==
    /\ SpecAccept
    /\ WF_vars(AcceptConn) /\ WF_vars(RecvVersion) /\ WF_vars(CheckAndRegister)

\* ------------------------------------------- check_all_ready, step by step
\* One room whose members are served by one reader thread each (thread t
\* handles the commands of user t), with check_all_ready followed through
\* its critical sections: the test under state_mtx, the send after the
\* unlock, the second lock that stores the new state, the host cycle, and
\* on_state_change.  thr.th[t] is the place of thread t (pc) and its
\* old_host_ptr (old); thr.host0 is the host when the round began.  log
\* holds every try_send since the last RequestStart.
RaceMembers == [i \in Threads |-> i]

IdleCheck == [pc |-> "idle", old |-> {}]

InitRace ==
    /\ config = DefaultConfig
    /\ users = [u \in AllUsers |->
                   IF u \in Threads
                   THEN [exists |-> TRUE, online |-> TRUE, room |-> {1},
                         monitor |-> FALSE]
                   ELSE NoUser]
    /\ rooms = [id \in RoomIds |-> IF id = "R1" THEN {1} ELSE {}]
    /\ \E cycle \in BOOLEAN :
           room = [s \in Slots |->
                      IF s = 1
                      THEN [NewRoom("R1", 1) EXCEPT !.users_ = RaceMembers,
                                                   !.chart = {42},
                                                   !.cycle = cycle]
                      ELSE NullRoom]
    /\ log = <<>>
    /\ chk = {}
    /\ op = [name |-> "Init", user |-> 0]
    /\ net = NoNet
    /\ sq = NoQueue
    /\ codec = NoCodec
    /\ thr = [th |-> [t \in Threads |-> IdleCheck], host0 |-> {1}]

\* One step of thread t: the room, the sends and the thread's place.
RaceStep(name, t, rm, lg, pc, old) ==
    /\ room' = [room EXCEPT ![1] = rm]
    /\ log' = lg
    /\ op' = [name |-> name, user |-> t]
    /\ thr' = [thr EXCEPT !.th[t] = [pc |-> pc, old |-> old],
                          !.host0 = IF name = "RequestStart" THEN room[1].host ELSE @]
    /\ UNCHANGED <<config, users, rooms, chk, net, sq, codec>>

At(t, pc) == thr.th[t].pc = pc

\* RequestStart by the host: WaitForReady with nobody ready.
RaceRequestStart(t) ==
    /\ At(t, "idle")
    /\ CheckHost(room[1], t)
    /\ room[1].state.type = "SelectChart"
    /\ room[1].chart # {}
    /\ LET rm == [room[1] EXCEPT !.state = StateWaitForReady({})]
       IN RaceStep("RequestStart", t, rm,
                   Reply(OnStateChange(rm, Send(rm, <<>>, "GameStart", t)),
                         t, "RequestStart"),
                   "idle", {})

\* Ready up to its call of check_all_ready.
RaceReady(t) ==
    /\ At(t, "idle")
    /\ ReadyAllowed(room[1], t)
    /\ LET rm == [room[1] EXCEPT !.state.started = @ \cup {t}]
       IN RaceStep("Ready", t, rm, Reply(Send(rm, log, "Ready", t), t, "Ready"),
                   "check", {})

\* Played and Abort up to their call of check_all_ready.
RacePlayed(t) ==
    /\ At(t, "idle")
    /\ PlayedAllowed(room[1], t, 42)
    /\ t \notin room[1].state.aborted
    /\ LET rm == [room[1] EXCEPT !.state.results = @ \cup {t}]
       IN RaceStep("Played", t, rm, Reply(Send(rm, log, "Played", t), t, "Played"),
                   "check", {})

RaceAbort(t) ==
    /\ At(t, "idle")
    /\ AbortAllowed(room[1], t)
    /\ t \notin room[1].state.results \cup room[1].state.aborted
    /\ LET rm == [room[1] EXCEPT !.state.aborted = @ \cup {t}]
       IN RaceStep("Abort", t, rm, Reply(Send(rm, log, "Abort", t), t, "Abort"),
                   "check", {})

\* check_all_ready, the first critical section: the state is read and the
\* branch chosen; the lock is released with the state as it was.
TestOnly(rm) ==
    IF rm.state.type = "WaitForReady" /\ AllReady(rm)
    THEN [rm |-> rm, pc |-> "start_send"]
    ELSE IF rm.state.type = "Playing" /\ AllDone(rm)
    THEN [rm |-> rm, pc |-> "end_send"]
    ELSE [rm |-> rm, pc |-> "idle"]

CheckTest(t) ==
    /\ At(t, "check")
    /\ LET r == TestOnly(room[1])
       IN RaceStep("check_all_ready", t, r.rm, log, r.pc, {})

\* send(Message::start_playing()) and reset_game_time().
CheckSendStart(t) ==
    /\ At(t, "start_send")
    /\ RaceStep("start_playing", t, room[1],
                Send(room[1], log, "StartPlaying", 0), "start_set", {})

\* lock2: state = InternalRoomState::playing().
CheckSetPlaying(t) ==
    /\ At(t, "start_set")
    /\ RaceStep("playing", t, [room[1] EXCEPT !.state = StatePlaying], log,
                "notify", {})

\* send(Message::game_end()).
CheckSendEnd(t) ==
    /\ At(t, "end_send")
    /\ RaceStep("game_end", t, room[1], Send(room[1], log, "GameEnd", 0),
                "end_set", {})

\* lock2: state = InternalRoomState::select_chart(); then is_cycle().
CheckSetSelectChart(t) ==
    /\ At(t, "end_set")
    /\ RaceStep("select_chart", t, [room[1] EXCEPT !.state = StateSelectChart],
                log, IF room[1].cycle THEN "cycle" ELSE "notify", {})

\* The host cycle: old_host_ptr is read under host_mtx.
CheckCycleRead(t) ==
    /\ At(t, "cycle")
    /\ RaceStep("old_host", t, room[1], log, "cycle_set",
                {h \in room[1].host : Alive(h)})

\* The host cycle: the new host is stored and told.
CheckCycleSet(t) ==
    /\ At(t, "cycle_set")
    /\ LET c == CycleHost([room[1] EXCEPT !.host = thr.th[t].old], log)
       IN RaceStep("new_host", t, c.rm, c.log, "notify", {})

\* on_state_change, the last call of both branches.
CheckNotify(t) ==
    /\ At(t, "notify")
    /\ RaceStep("on_state_change", t, room[1], OnStateChange(room[1], log),
                "idle", {})

NextRace ==
    \/ \E t \in Threads : RaceRequestStart(t)
    \/ \E t \in Threads : RaceReady(t)
    \/ \E t \in Threads : RacePlayed(t)
    \/ \E t \in Threads : RaceAbort(t)
    \/ \E t \in Threads : CheckTest(t)
    \/ \E t \in Threads : CheckSendStart(t)
    \/ \E t \in Threads : CheckSetPlaying(t)
    \/ \E t \in Threads : CheckSendEnd(t)
    \/ \E t \in Threads : CheckSetSelectChart(t)
    \/ \E t \in Threads : CheckCycleRead(t)
    \/ \E t \in Threads : CheckCycleSet(t)
    \/ \E t \in Threads : CheckNotify(t)

SpecRace == InitRace /\ [][NextRace]_vars

\* ------------------------------------------------- claims C31 .. C40

\* A log holds the room message m.
Says(lg, m) ==
    \E i \in 1 .. Len(lg) : lg[i].cmd.type = "SMessage" /\ lg[i].cmd.msg = m

\* The members and the monitors a room keeps when u leaves it.
StayingMembers(rm, u) == {w \in Range(RoomUsers(rm)) : w # u}
StayingMonitors(rm, u) == {w \in Range(RoomMonitors(rm)) : w # u}

\* The user of a LeaveRoom step, as the room had it: listed where its
\* monitor flag says.
Leaves(u) ==
    /\ op'.name = "LeaveRoom"
    /\ op'.user = u
    /\ users[u].room = {1}
    /\ IF users[u].monitor THEN u \in Range(RoomMonitors(room[1]))
                           ELSE u \in Range(RoomUsers(room[1]))

C31_WitnessStart ==
    /\ op.name = "LeaveRoom"
    /\ users[op.user].monitor
    /\ Says(log, "StartPlaying")
    /\ room[1].state.type = "Playing"

\* The threads in an operation, and those whose lock call cannot return.
Busy == {t \in Threads : thr.th[t].todo # <<>>}
Waiting ==
    {t \in Busy : LET s == Head(thr.th[t].todo)
                  IN s.a = "lock" /\ ~CanLock(t, s.l, s.m)}

\* The place of a mutex in an order.
Rank(order, l) == CHOOSE i \in 1 .. Len(order) : order[i] = l

\* The locks a thread holds were taken in the order given.
TakenInOrder(t, order) ==
    \A i, j \in 1 .. Len(thr.th[t].held) :
        i < j => Rank(order, thr.th[t].held[i].l) < Rank(order, thr.th[t].held[j].l)

\* C32: a thread in a Room operation holds at most two of the room's locks,
\* taken in the order host < state < users < monitors < chart, and while
\* some thread is in an operation some thread in an operation can take its
\* next step: the operations client_room_state, client_state, add_user,
\* on_user_leave, check_all_ready and broadcast never deadlock on the locks.
C32_RoomLockOrder ==
    /\ \A t \in Threads :
          /\ Len(thr.th[t].held) <= 2
          /\ TakenInOrder(t, RoomLockOrder)
    /\ Busy # {} => Busy \ Waiting # {}

\* One thread holds state_mtx and users_mtx, as check_all_ready does, and
\* another waits for state_mtx.
C32_Witness ==
    \E t, o \in Threads :
        /\ Holds(t, "state", "X")
        /\ Holds(t, "users", "S")
        /\ o \in Waiting
        /\ Head(thr.th[o].todo).l = "state"

\* Some plugin is shown the command and returns false: the first one whose
\* answer to the client's kind is a veto (no plugin before it changed the
\* command).
Vetoed ==
    \E i \in 1 .. Len(codec.in.plugins) :
        VerdictOn(codec.in.plugins[i], codec.in.cmd) = "veto"

\* C33: when some plugin vetoes, filter_command returns true and the
\* command dispatched is a Ping, whatever the plugins before and after it
\* return; when none vetoes, filter_command returns false and the command
\* dispatched is the client's.
C33_VetoIsPing ==
    (codec.fn = "filter" /\ codec.done) =>
        IF Vetoed
        THEN codec.out.modified /\ codec.out.dispatched.type = "Ping"
        ELSE ~codec.out.modified /\ codec.out.dispatched = codec.in.cmd

\* A Chat was vetoed by the first of two plugins and the second, shown the
\* Ping, returned a table: the Ping was dispatched.
C33_Witness ==
    /\ codec.fn = "filter"
    /\ codec.done
    /\ codec.in.cmd.type = "Chat"
    /\ Len(codec.in.plugins) = 2
    /\ codec.in.plugins[1].on = "veto"
    /\ codec.in.plugins[2].onPing = "table"
    /\ codec.out.dispatched.type = "Ping"

\* How often the room message m was sent to user u since the round began.
TimesSaid(u, m) ==
    Cardinality({i \in 1 .. Len(log) :
                    /\ log[i].to = u
                    /\ log[i].cmd.type = "SMessage"
                    /\ log[i].cmd.msg = m})

\* C34: with check_all_ready called from several threads on a WaitForReady
\* room, a member is sent StartPlaying at most once in a round, and a step
\* that leaves a Playing room Playing keeps the results and the aborts it
\* had.
C34_StartsOnce ==
    [][/\ \A u \in Threads : TimesSaid(u, "StartPlaying")' <= 1
       /\ (room[1].state.type = "Playing" /\ room'[1].state.type = "Playing")
              => /\ room[1].state.results \subseteq room'[1].state.results
                 /\ room[1].state.aborted \subseteq room'[1].state.aborted]_vars

\* C35: with check_all_ready called from several threads on a Playing
\* room, a member is sent GameEnd at most once in a game, and when the
\* game of a cycle room is over the host is the member after the one that
\* was host when the round began.
C35_EndsOnce ==
    /\ \A u \in Threads : TimesSaid(u, "GameEnd") <= 1
    /\ (/\ room[1].cycle
        /\ room[1].state.type = "SelectChart"
        /\ TimesSaid(1, "GameEnd") >= 1
        /\ \A t \in Threads : thr.th[t].pc = "idle")
           => room[1].host =
                  {RaceMembers[NextHostIndex(RaceMembers, thr.host0)]}

\* The ChangeHost commands the last handler sent to a user.
ChangeHostsTo(u) == SelectSeq(ChangeHosts(log), LAMBDA e : e.to = u)

\* C36: when a game ends in a cycle room of exactly one member, that member
\* is the host afterwards, and of the ChangeHost commands the handler sent
\* it the last one is ChangeHost{true}.
C36_SoleMemberStaysHost ==
    \A c \in GameEnds :
        (c.rm.cycle /\ Len(RoomUsers(c.rm)) = 1) =>
            LET m == RoomUsers(c.rm)[1]
                h == ChangeHostsTo(m)
            IN /\ c.res.host = {m}
               /\ h # <<>>
               /\ h[Len(h)].cmd.flag

\* The only member of a cycle room finished its game: it was sent
\* ChangeHost{false}, then ChangeHost{true}.
C36_Witness ==
    \E c \in GameEnds :
        /\ c.rm.cycle
        /\ Len(RoomUsers(c.rm)) = 1
        /\ op.name = "Played"
        /\ ChangeHostsTo(RoomUsers(c.rm)[1])
               = <<Sent(op.user, ChangeHostCmd(FALSE)),
                   Sent(op.user, ChangeHostCmd(TRUE))>>

\* The rooms that list a user, as member or as monitor.
ListedAt(rs, u) ==
    {s \in Slots : u \in Range(rs[s].users_) \cup Range(rs[s].monitors_)}

\* C37: a step that runs on_user_leave for a user listed in its room, as
\* member or as monitor, leaves the user in neither list of any room.
C37_LeaverUnlisted ==
    [][\A u \in Users :
          (/\ op'.name \in {"LeaveRoom", "DangleTimeout"}
           /\ op'.user = u
           /\ users[u].room # {}
           /\ ListedAt(room, u) # {})
              => ListedAt(room', u) = {}]_vars

\* A monitor left a room that keeps its members and is in neither list.
C37_Witness ==
    /\ op.name = "LeaveRoom"
    /\ users[op.user].monitor
    /\ ListedAt(room, op.user) = {}
    /\ \E s \in Slots : room[s].id = "R1" /\ RoomUsers(room[s]) # <<>>

\* C38: the room a user holds as its current room is the one the rooms map
\* has under that room's id.
C38_BoundRoomsRegistered ==
    \A u \in Users :
        users[u].exists => \A s \in users[u].room : rooms[room[s].id] = {s}

\* C39: a ban operation, once begun, returns: the thread that runs it gets
\* through every lock of the operation, whatever the other threads run.
C39_BanOperationsReturn ==
    \A t \in Threads :
        (thr.th[t].todo # <<>>) ~> (thr.th[t].todo = <<>>)

\* C40: a client that has connected and sent its version byte, from an
\* address that is not banned, gets its session, whatever the other clients
\* have or have not sent; and a client that closed without the byte, or
\* whose address is banned, has no session.
C40_AcceptIndependent ==
    /\ \A c \in Clients :
           (thr.conn[c].sent /\ c \notin thr.banned)
               ~> (thr.conn[c].st = "session")
    /\ [](\A c \in Clients :
              thr.conn[c].st = "session"
                  => thr.conn[c].sent /\ c \notin thr.banned)

\* What holds of accept_one: no session without the version byte or from a
\* banned address.
SessionsHaveVersion ==
    \A c \in Clients :
        thr.conn[c].st = "session" => thr.conn[c].sent /\ c \notin thr.banned


====
